---- MODULE Spec2Model ----
(***************************************************************************)
(* The bootstrap assembler of the BFF (getBootstrapPayload), its two TTL   *)
(* caches (TTLCache), the request context builder (buildRequestContext)    *)
(* and the upstream HTTP client (createHttpClient / getJson).              *)
(*                                                                         *)
(* JavaScript strings are sequences of tokens, so that template literals   *)
(* are concatenations (\o) and two different pairs of parts can build the  *)
(* same string.  Time is the value of Date.now() in milliseconds.          *)
(***************************************************************************)
EXTENDS Integers, Sequences, FiniteSets, TLC

\* ------------------------------------------------------------------------
\* Bounds of the model
\* ------------------------------------------------------------------------

\* Number of inbound requests served in one behaviour.
MaxRequests == 2

\* Date.now() advances in steps of TickMs, up to MaxTicks steps.
TickMs == 7500

MaxTicks == 2

\* ------------------------------------------------------------------------
\* Strings
\* ------------------------------------------------------------------------

\* The value null of a field typed string | null.
Null == <<"<null>">>

\* !s for s : string | null.
Falsy(s) == s = Null \/ s = <<>>

IsAt(s, pat, i) ==
    /\ i >= 1
    /\ i + Len(pat) - 1 <= Len(s)
    /\ SubSeq(s, i, i + Len(pat) - 1) = pat

\* s.includes(pat)
Includes(s, pat) == \E i \in 1..(Len(s) + 1) : IsAt(s, pat, i)

IsSpace(t) == t = " "

\* s.trim()
Trim(s) ==
    LET keep == {i \in 1..Len(s) : ~IsSpace(s[i])}
    IN  IF keep = {} THEN <<>>
        ELSE LET lo == CHOOSE i \in keep : \A j \in keep : i <= j
                 hi == CHOOSE i \in keep : \A j \in keep : j <= i
             IN  SubSeq(s, lo, hi)

SessionEq == <<"session=">>

\* cookie.match(/session=([^;]+)/)?.[1], with <<>> for "no match".
SessionMatch(cookie) ==
    LET n == Len(SessionEq)
        starts == {i \in 1..Len(cookie) :
                      /\ IsAt(cookie, SessionEq, i)
                      /\ i + n <= Len(cookie)
                      /\ cookie[i + n] # ";"}
    IN  IF starts = {} THEN <<>>
        ELSE LET i  == CHOOSE a \in starts : \A b \in starts : a <= b
                 lo == i + n
                 ends == {j \in lo..Len(cookie) :
                             \A k \in lo..j : cookie[k] # ";"}
                 hi == CHOOSE a \in ends : \A b \in ends : b <= a
             IN  SubSeq(cookie, lo, hi)

\* crypto.randomUUID(): the n-th identifier drawn, different from all others.
UuidTokens == <<"uuid-1", "uuid-2", "uuid-3", "uuid-4", "uuid-5", "uuid-6",
                "uuid-7", "uuid-8", "uuid-9", "uuid-10", "uuid-11", "uuid-12">>

\* Mutant of randomUUID: every draw gives the same identifier.
randomUUIDRepeating(n) == <<UuidTokens[1]>>

randomUUID(n) == <<UuidTokens[n]>>

\* ------------------------------------------------------------------------
\* Request context
\* ------------------------------------------------------------------------

\* An absent header reads as the empty string (req.headers.cookie ?? "").
isAuthenticated(req) ==
    \/ Includes(req.cookie, SessionEq)
    \/ Len(Trim(req.authorization)) > 0

\* getOrCreateUserId as it would be if it trusted the header x-user-id.
getOrCreateUserIdFromHeader(req, uuid) ==
    IF Len(Trim(req.xUserId)) > 0 THEN Trim(req.xUserId)
    ELSE IF isAuthenticated(req)
         THEN IF SessionMatch(req.cookie) # <<>> THEN SessionMatch(req.cookie) ELSE uuid
         ELSE Null

getOrCreateUserId(req, uuid) ==
    IF isAuthenticated(req)
    THEN IF SessionMatch(req.cookie) # <<>>
         THEN SessionMatch(req.cookie)
         ELSE uuid
    ELSE Null

\* Mutant of buildRequestContext: every visitor is given an identifier.
buildRequestContextWithVisitorId(req, routeOverride, r) ==
    [requestId       |-> randomUUID(2 * r - 1),
     userId          |-> IF isAuthenticated(req)
                         THEN getOrCreateUserId(req, randomUUID(2 * r))
                         ELSE randomUUID(2 * r),
     route           |-> IF routeOverride.present THEN routeOverride.value
                                                  ELSE req.path,
     isAuthenticated |-> isAuthenticated(req)]

\* routeOverride is [present, value]; req.path is the path of the request.
\* The r-th request draws two identifiers: its requestId and, when needed,
\* the fallback userId.
buildRequestContext(req, routeOverride, r) ==
    [requestId       |-> randomUUID(2 * r - 1),
     userId          |-> getOrCreateUserId(req, randomUUID(2 * r)),
     route           |-> IF routeOverride.present THEN routeOverride.value
                                                  ELSE req.path,
     isAuthenticated |-> isAuthenticated(req)]

\* ------------------------------------------------------------------------
\* TTLCache
\* ------------------------------------------------------------------------

\* A cache is [map, ttlMs, maxSize]; map is the entries [key, value,
\* expiresAtMs] in insertion order (the iteration order of a JS Map).

\* The value null returned by get.
NullValue == [null |-> TRUE]

NewTTLCache(ttlMs, maxSize) == [map |-> <<>>, ttlMs |-> ttlMs, maxSize |-> maxSize]

MapHas(map, key) == \E i \in 1..Len(map) : map[i].key = key

MapIndex(map, key) == CHOOSE i \in 1..Len(map) : map[i].key = key

MapDelete(map, key) == SelectSeq(map, LAMBDA e : e.key # key)

\* Map.set: an existing key keeps its place, a new key goes last.
MapSet(map, entry) ==
    IF MapHas(map, entry.key)
    THEN [map EXCEPT ![MapIndex(map, entry.key)] = entry]
    ELSE Append(map, entry)

\* Mutant of Expired: the entry outlives the instant expiresAtMs.
ExpiredLate(entry, t) == t > entry.expiresAtMs

\* The entry is dead at instant t.
Expired(entry, t) == t >= entry.expiresAtMs

\* Mutant of TTLCacheGet: a read of a live entry renews its expiry.
TTLCacheGetRenewing(cache, key, t) ==
    IF ~MapHas(cache.map, key)
    THEN [value |-> NullValue, cache |-> cache]
    ELSE LET entry == cache.map[MapIndex(cache.map, key)]
         IN  IF Expired(entry, t)
             THEN [value |-> NullValue,
                   cache |-> [cache EXCEPT !.map = MapDelete(@, key)]]
             ELSE [value |-> entry.value,
                   cache |-> [cache EXCEPT !.map[MapIndex(cache.map, key)].expiresAtMs =
                                               t + cache.ttlMs]]

\* get(key) at instant t: the value returned and the cache afterwards.
TTLCacheGet(cache, key, t) ==
    IF ~MapHas(cache.map, key)
    THEN [value |-> NullValue, cache |-> cache]
    ELSE LET entry == cache.map[MapIndex(cache.map, key)]
         IN  IF Expired(entry, t)
             THEN [value |-> NullValue,
                   cache |-> [cache EXCEPT !.map = MapDelete(@, key)]]
             ELSE [value |-> entry.value, cache |-> cache]

\* Mutant of TTLCacheSet: an entry that is there already is kept (first
\* write wins).
TTLCacheSetKeepingFirst(cache, key, value, t) ==
    IF MapHas(cache.map, key) THEN cache
    ELSE [cache EXCEPT !.map =
             Append(@, [key |-> key, value |-> value,
                        expiresAtMs |-> t + cache.ttlMs])]

\* set(key, value) at instant t.
TTLCacheSet(cache, key, value, t) ==
    LET evict == Len(cache.map) >= cache.maxSize /\ ~MapHas(cache.map, key)
        m1 == IF evict /\ Len(cache.map) > 0 /\ cache.map[1].key # <<>>
              THEN Tail(cache.map)
              ELSE cache.map
    IN  [cache EXCEPT !.map =
            MapSet(m1, [key |-> key, value |-> value,
                        expiresAtMs |-> t + cache.ttlMs])]

\* The periodic sweep, run at instant t.
TTLCacheCleanup(cache, t) ==
    [cache EXCEPT !.map = SelectSeq(@, LAMBDA e : ~Expired(e, t))]

TTLCacheDelete(cache, key) == [cache EXCEPT !.map = MapDelete(@, key)]

TTLCacheClear(cache) == [cache EXCEPT !.map = <<>>]

\* ttlMs of the two bootstrap caches.
BootstrapTtlMs == 15000

\* maxSize when the constructor is given none.
DefaultMaxSize == 1000

\* ------------------------------------------------------------------------
\* Bootstrap payloads
\* ------------------------------------------------------------------------

BOOTSTRAP_ERROR_CODES ==
    [TIMEOUT  |-> "BOOTSTRAP_TIMEOUT",
     UPSTREAM |-> "BOOTSTRAP_UPSTREAM",
     UNKNOWN  |-> "BOOTSTRAP_UNKNOWN"]

BOOTSTRAP_ERROR_MESSAGES ==
    [TIMEOUT  |-> <<"The server is taking too long to respond. Please try again.">>,
     UPSTREAM |-> <<"We could not load the page data. Please retry.">>,
     UNKNOWN  |-> <<"An unexpected error occurred. Please refresh the page.">>,
     NETWORK  |-> <<"Network error while loading. Please check your connection.">>]

Opt(options, field, default) ==
    IF field \in DOMAIN options THEN options[field] ELSE default

\* options is a record holding any of status, code, message, greeting.
makeErrorBootstrap(route, options) ==
    [route    |-> route,
     greeting |-> Opt(options, "greeting", <<"Welcome">>),
     page     |-> [kind    |-> "error",
                   status  |-> Opt(options, "status", 0),
                   code    |-> Opt(options, "code", BOOTSTRAP_ERROR_CODES.UNKNOWN),
                   message |-> Opt(options, "message", BOOTSTRAP_ERROR_MESSAGES.UNKNOWN)]]

makeHomeBootstrap(route, greeting) ==
    [route |-> route, greeting |-> greeting, page |-> [kind |-> "home"]]

makeTodosBootstrap(route, greeting, todos) ==
    [route |-> route, greeting |-> greeting,
     page  |-> [kind |-> "todos", todos |-> todos]]

\* ------------------------------------------------------------------------
\* Upstream HTTP client
\* ------------------------------------------------------------------------

\* JSON values: [t |-> "null"], [t |-> "object", fields |-> record],
\* [t |-> "array", items |-> sequence].
JsonNull == [t |-> "null"]

JsonObject(fields) == [t |-> "object", fields |-> fields]

JsonArray(items) == [t |-> "array", items |-> items]

StatusToken(status) ==
    CASE status = 404 -> "404"
      [] status = 503 -> "503"
      [] status = 500 -> "500"
      [] status = 504 -> "504"
      [] OTHER        -> "other"

StatusText(status) == IF status = 404 THEN "Not Found" ELSE "Service Unavailable"

\* What one attempt meets:
\*   ok           2xx, body parses to json
\*   status       non-2xx answer with a text body
\*   timeout      the fuse fires before the answer (fetch rejects, AbortError)
\*   network      connection, DNS or TLS failure (fetch rejects, TypeError)
\*   unparseable  2xx, body is not JSON (response.json() rejects, SyntaxError)
OkOutcome(json) == [kind |-> "ok", json |-> json]

StatusOutcome(status, body) == [kind |-> "status", status |-> status, body |-> body]

TimeoutOutcome == [kind |-> "timeout"]

NetworkOutcome == [kind |-> "network"]

UnparseableOutcome == [kind |-> "unparseable"]

FailureOutcomes ==
    {TimeoutOutcome, NetworkOutcome, UnparseableOutcome,
     StatusOutcome(404, <<"no such user">>),
     StatusOutcome(503, <<"upstream stack trace">>)}

\* Whether an answer arrived (response.status is known) in this attempt.
HasResponse(outcome) == outcome.kind \in {"ok", "status", "unparseable"}

\* The error an attempt throws.  error.name stands for the class too:
\* TypeError and SyntaxError are instances of Error, AbortError is a
\* DOMException whose name is "AbortError".
AttemptError(outcome) ==
    CASE outcome.kind = "timeout"     ->
             [name |-> "AbortError", message |-> <<"This operation was aborted">>]
      [] outcome.kind = "network"     ->
             [name |-> "TypeError", message |-> <<"fetch failed">>]
      [] outcome.kind = "unparseable" ->
             [name |-> "SyntaxError", message |-> <<"Unexpected token in JSON">>]
      [] outcome.kind = "status"      ->
             [name |-> "Error",
              message |-> <<"HTTP ", StatusToken(outcome.status), " ",
                            StatusText(outcome.status), ": ">> \o outcome.body]

isRetryable(error) ==
    LET isAbort   == error.name = "AbortError"
        isNetwork == error.name = "TypeError"
    IN  isAbort \/ isNetwork

\* API_CONFIG.retries
ApiRetries == 1

\* API_CONFIG.timeoutMs
ApiTimeoutMs == 1500

API_CONFIG == [timeoutMs |-> ApiTimeoutMs, retries |-> ApiRetries]

\* outcomes[k] is what attempt k - 1 meets, if the loop gets to it.
RECURSIVE getJsonLoop(_, _, _)
getJsonLoop(outcomes, attempt, maxRetries) ==
    LET outcome == outcomes[attempt + 1]
    IN  IF outcome.kind = "ok"
        THEN [ok |-> TRUE, value |-> outcome.json, attempts |-> attempt + 1]
        ELSE IF ~isRetryable(AttemptError(outcome)) \/ attempt >= maxRetries
             THEN [ok |-> FALSE, error |-> AttemptError(outcome),
                   attempts |-> attempt + 1]
             ELSE getJsonLoop(outcomes, attempt + 1, maxRetries)

\* getJson(url, opts): the value returned or the error thrown, and the number
\* of requests issued.
getJson(outcomes, opts) == getJsonLoop(outcomes, 0, opts.retries)

\* createHttpClient(config): the client is the requestId it closes over.
createHttpClient(config) == [requestId |-> config.requestId]

UserUrl == <<"https://jsonplaceholder.typicode.com", "/users/", "1">>

TodosUrl == <<"https://jsonplaceholder.typicode.com", "/todos?_limit=", "5">>

\* A TypeError raised by the caller's own code on an unexpected JSON shape.
ShapeError == [name |-> "TypeError", message |-> <<"Cannot read properties">>]

\* getUserName: user.name of the identity record.  user.name of a record
\* without the field is undefined; of null it throws.
UserName(res) ==
    IF ~res.ok THEN res
    ELSE IF res.value.t = "null"
         THEN [ok |-> FALSE, error |-> ShapeError, attempts |-> res.attempts]
         ELSE [ok |-> TRUE, value |-> res.value.fields.name,
               attempts |-> res.attempts]

getUserName(outcomes) == UserName(getJson(outcomes, API_CONFIG))

getTodos(outcomes) == getJson(outcomes, API_CONFIG)

\* Mutant of toInternalTodo: the upstream record is passed on whole.
toInternalTodoWhole(external) == external

toInternalTodo(external) ==
    [id |-> external.id, title |-> external.title, completed |-> external.completed]

\* externalTodos.map(toInternalTodo)
toInternalTodos(items) == [i \in 1..Len(items) |-> toInternalTodo(items[i])]

\* ------------------------------------------------------------------------
\* Inputs of the bootstrap model
\* ------------------------------------------------------------------------

TodosRoute == <<"/", "todos">>

Request(cookie, authorization, query) ==
    [cookie |-> cookie, authorization |-> authorization, query |-> query,
     path |-> <<"/", "api", "/", "bootstrap">>]

NoQuery == [present |-> FALSE, value |-> <<>>]

Query(value) == [present |-> TRUE, value |-> value]

\* The requests served: anonymous and authenticated, on the home route, the
\* listing route and a route that starts with ":".
HttpRequests ==
    {Request(<<>>, <<>>, NoQuery),
     Request(<<>>, <<>>, Query(<<"/", "about">>)),
     Request(<<>>, <<>>, Query(TodosRoute)),
     Request(<<"session=", "a">>, <<>>, Query(TodosRoute)),
     Request(<<"session=", "a">>, <<>>, Query(<<":", "/">>)),
     Request(<<"session=", "a", ":">>, <<>>, NoQuery),
     Request(<<>>, <<"Bearer", " ", "t">>, NoQuery)}

\* Identity records the upstream serves.
UserJsons ==
    {JsonObject([id |-> 1, name |-> <<n>>, username |-> <<"u">>]) :
        n \in {"Ada", "Leanne Graham"}}

ExternalTodo(id, completed) ==
    [userId |-> 1, id |-> id, title |-> <<"t">>, completed |-> completed]

\* Listings the upstream serves.
TodosJsons ==
    {JsonArray(<<ExternalTodo(1, FALSE)>>),
     JsonArray(<<ExternalTodo(1, FALSE), ExternalTodo(2, TRUE)>>)}

UserOutcomes ==
    {OkOutcome(j) : j \in UserJsons \cup {JsonNull}} \cup FailureOutcomes

TodosOutcomes ==
    {OkOutcome(j) : j \in TodosJsons \cup {JsonObject([error |-> <<"x">>])}}
        \cup FailureOutcomes

\* What the attempts of one getJson call meet, one outcome per attempt.
\* An attempt that got an answer is the last one the upstream sees, so what a
\* further attempt would meet is left as the same outcome.
OutcomeSeqs(S) == {<<a, b>> : a \in S, b \in S} \ {o \in {<<a, b>> : a \in S, b \in S} : HasResponse(o[1]) /\ o[2] # o[1]}

\* ------------------------------------------------------------------------
\* State
\* ------------------------------------------------------------------------

VARIABLES
    now,                    \* Date.now()
    publicBootstrapCache,   \* TTLCache<BootstrapPayload>
    privateBootstrapCache,  \* TTLCache<BootstrapPayload>
    reqs,                   \* the getBootstrapPayload calls, in arrival order
    writes,                 \* history: the cache.set calls made, in order
    http,                   \* one getJson activation, step by step
    fuses,                  \* the timers armed by setTimeout and still pending
    aborted,                \* the attempts whose AbortController was aborted
    sent,                   \* history: the requests handed to fetch
    ends,                   \* history: how each finished attempt ended
    fired,                  \* history: the fuses that fired, and during which attempt
    console,                \* the console lines of the getJson activation
    ttlCache,               \* a TTLCache driven directly through its methods
    live,                   \* history: per key, the last set not yet removed
    lastGet,                \* history: the last get made on ttlCache
    policy,                 \* one applyCachePolicy call: request, mode, response
    renders,                \* the renderHtml calls made on one input
    window,                 \* the two global slots of the browser page
    client,                 \* the client entry point: store, mount, requests
    served,                 \* history: what the server rendered into the page
    identity,               \* two requests through context, key and policy
    listing,                \* one upstream listing on its way to the client
    manifest,               \* manifest.json, cachedManifest, cacheTimestamp
    gets,                   \* the inbound GETs through the middleware stack
    listener                \* the server process: PORT, the port bound or the boot error

bootVars == <<publicBootstrapCache, privateBootstrapCache, reqs, writes>>

httpVars == <<http, fuses, aborted, sent, ends, fired, console>>

cacheVars == <<ttlCache, live, lastGet>>

policyVars == <<policy>>

renderVars == <<renders>>

clientVars == <<window, client, served>>

edgeVars == <<identity, listing, manifest, gets>>

processVars == <<listener>>

webVars == <<policyVars, renderVars, clientVars, edgeVars, processVars>>

vars == <<now, bootVars, httpVars, cacheVars, webVars>>

NoError == [name |-> "none", message |-> <<>>]

\* ------------------------------------------------------------------------
\* getBootstrapPayload
\* ------------------------------------------------------------------------

makePublicKey(ctx) == <<"route=">> \o ctx.route

\* Mutant of makePrivateKey: the key varies by route only.
makePrivateKeyByRoute(ctx) == <<"anon:">> \o ctx.route

makePrivateKey(ctx) ==
    IF ~ctx.isAuthenticated \/ Falsy(ctx.userId)
    THEN <<"anon:">> \o ctx.route
    ELSE <<"user=">> \o ctx.userId \o <<":">> \o ctx.route

isBootstrapPublic(ctx) == FALSE

CacheKey(ctx) ==
    IF isBootstrapPublic(ctx) THEN makePublicKey(ctx) ELSE makePrivateKey(ctx)

\* A world is what one synchronous stretch of a call reads and writes:
\* [pub, priv, writes, rec], rec being the call's own record.
ChosenCache(w) == IF isBootstrapPublic(w.rec.ctx) THEN w.pub ELSE w.priv

WithChosenCache(w, cache) ==
    IF isBootstrapPublic(w.rec.ctx) THEN [w EXCEPT !.pub = cache]
                                    ELSE [w EXCEPT !.priv = cache]

\* The request that made the latest cache.set of key, 0 if none.
LastWriter(log, key) ==
    LET at == {i \in 1..Len(log) : log[i].key = key}
    IN  IF at = {} THEN 0
        ELSE log[CHOOSE i \in at : \A j \in at : j <= i].by

\* Mutant of Succeed: the payload is returned and never stored.
SucceedWithoutSet(w, r, payload, t) ==
    [w EXCEPT !.rec.pc = "done", !.rec.payload = payload,
              !.rec.settled = "resolved"]

\* cache.set(cacheKey, payload); return payload
Succeed(w, r, payload, t) ==
    LET w1 == WithChosenCache(w, TTLCacheSet(ChosenCache(w), w.rec.key, payload, t))
    IN  [w1 EXCEPT !.rec.pc = "done", !.rec.payload = payload,
                   !.rec.settled = "resolved", !.rec.setAt = t,
                   !.writes = Append(@, [key |-> w.rec.key, by |-> r])]

\* Mutant of Fail: the catch block throws the error on.
FailRethrows(w, error) ==
    [w EXCEPT !.rec.pc = "done", !.rec.error = error,
              !.rec.settled = "rejected"]

\* Mutant of Fail: the error's own message is handed to the user.
FailWithErrorMessage(w, error) ==
    [w EXCEPT !.rec.pc = "done", !.rec.error = error,
              !.rec.settled = "resolved",
              !.rec.payload =
                  makeErrorBootstrap(w.rec.ctx.route,
                      [status   |-> 500,
                       code     |-> BOOTSTRAP_ERROR_CODES.UNKNOWN,
                       message  |-> error.message,
                       greeting |-> <<"Welcome">>])]

\* The catch block: the error payload is returned, nothing is stored.
Fail(w, error) ==
    [w EXCEPT !.rec.pc = "done", !.rec.error = error,
              !.rec.settled = "resolved",
              !.rec.payload =
                  makeErrorBootstrap(w.rec.ctx.route,
                      [status   |-> 500,
                       code     |-> BOOTSTRAP_ERROR_CODES.UNKNOWN,
                       message  |-> <<"An unexpected error occurred. Please try again.">>,
                       greeting |-> <<"Welcome">>])]

buildDefaultPayload(ctx, greeting) == makeHomeBootstrap(ctx.route, greeting)

\* Mutant of Dispatch: a payload built with the fallback greeting is
\* returned and not stored.
DispatchSkippingDegraded(w, r, greeting, t) ==
    LET w1 == [w EXCEPT !.rec.greeting = greeting]
    IN  IF w.rec.ctx.route = TodosRoute
        THEN [w1 EXCEPT !.rec.pc = "todos"]
        ELSE IF w.rec.userFailed
        THEN SucceedWithoutSet(w1, r, buildDefaultPayload(w.rec.ctx, greeting), t)
        ELSE Succeed(w1, r, buildDefaultPayload(w.rec.ctx, greeting), t)

\* The greeting is known: the listing route awaits getTodos, any other
\* route builds the home payload at once.
Dispatch(w, r, greeting, t) ==
    LET w1 == [w EXCEPT !.rec.greeting = greeting]
    IN  IF w.rec.ctx.route = TodosRoute
        THEN [w1 EXCEPT !.rec.pc = "todos"]
        ELSE Succeed(w1, r, buildDefaultPayload(w.rec.ctx, greeting), t)

\* Mutant of Lookup: the greeting of an anonymous request is asked of the
\* identity upstream too.
LookupGreetingAll(w, r, t) ==
    LET got == TTLCacheGet(ChosenCache(w), w.rec.key, t)
        w1  == WithChosenCache(w, got.cache)
    IN  IF got.value # NullValue
        THEN [w1 EXCEPT !.rec.pc = "done", !.rec.hit = TRUE,
                        !.rec.payload = got.value, !.rec.settled = "resolved",
                        !.rec.servedBy = LastWriter(w.writes, w.rec.key)]
        ELSE [w1 EXCEPT !.rec.pc = "user"]

\* Entry of getBootstrapPayload up to its first upstream call.
Lookup(w, r, t) ==
    LET got == TTLCacheGet(ChosenCache(w), w.rec.key, t)
        w1  == WithChosenCache(w, got.cache)
    IN  IF got.value # NullValue
        THEN [w1 EXCEPT !.rec.pc = "done", !.rec.hit = TRUE,
                        !.rec.payload = got.value, !.rec.settled = "resolved",
                        !.rec.servedBy = LastWriter(w.writes, w.rec.key)]
        ELSE IF ~w.rec.ctx.isAuthenticated
             THEN Dispatch(w1, r, <<"Welcome">>, t)
             ELSE [w1 EXCEPT !.rec.pc = "user"]

\* generateGreeting once getUserName has settled.
generateGreeting(res) ==
    IF res.ok THEN <<"Welcome back, ">> \o res.value
              ELSE <<"Welcome back">>

\* buildTodosPayload once getTodos has settled with a value.
buildTodosPayload(ctx, greeting, json) ==
    IF json.t # "array"
    THEN [ok |-> FALSE, error |-> ShapeError]
    ELSE [ok |-> TRUE,
          value |-> makeTodosBootstrap(ctx.route, greeting,
                                       toInternalTodos(json.items))]

NewCall(ctx, t, inFlight) ==
    [ctx |-> ctx, key |-> CacheKey(ctx), pc |-> "start", hit |-> FALSE,
     servedBy |-> 0, greeting |-> <<>>, userFailed |-> FALSE,
     userCalls |-> 0, todosCalls |-> 0, error |-> NoError,
     payload |-> NullValue, settled |-> "pending",
     arrivedAt |-> t, setAt |-> -1, concurrent |-> inFlight]

World(rec) ==
    [pub |-> publicBootstrapCache, priv |-> privateBootstrapCache,
     writes |-> writes, rec |-> rec]

InFlight == {i \in 1..Len(reqs) : reqs[i].pc # "done"}

\* The variables after a stretch of call r that ends in world w.
Commit(w, r) ==
    /\ publicBootstrapCache' = w.pub
    /\ privateBootstrapCache' = w.priv
    /\ writes' = w.writes
    /\ reqs' = IF r > Len(reqs) THEN Append(reqs, w.rec)
                                ELSE [reqs EXCEPT ![r] = w.rec]
    /\ UNCHANGED <<httpVars, cacheVars, webVars>>

\* GET /api/bootstrap: the handler up to the first upstream call of
\* getBootstrapPayload.
ApiBootstrapWithin(req, limit) ==
    /\ Len(reqs) < limit
    /\ LET r     == Len(reqs) + 1
           route == IF req.query.present THEN req.query.value ELSE <<"/">>
           ctx   == buildRequestContext(req, [present |-> TRUE, value |-> route], r)
       IN  Commit(Lookup(World(NewCall(ctx, now, InFlight)), r, now), r)
    /\ UNCHANGED now

ApiBootstrap(req) == ApiBootstrapWithin(req, MaxRequests)

\* Mutant of UserSettles: a failed identity call is not caught by
\* generateGreeting and reaches the catch block of getBootstrapPayload.
UserSettlesUncaught(r, outcomes) ==
    /\ reqs[r].pc = "user"
    /\ LET res == getUserName(outcomes)
           w   == [World(reqs[r]) EXCEPT !.rec.userFailed = ~res.ok,
                                         !.rec.userCalls = @ + 1]
       IN  Commit(IF res.ok THEN Dispatch(w, r, generateGreeting(res), now)
                            ELSE Fail(w, res.error), r)
    /\ UNCHANGED now

\* getUserName settles: the greeting, then the route dispatch.
UserSettles(r, outcomes) ==
    /\ reqs[r].pc = "user"
    /\ LET res == getUserName(outcomes)
           w   == [World(reqs[r]) EXCEPT !.rec.userFailed = ~res.ok,
                                         !.rec.userCalls = @ + 1]
       IN  Commit(Dispatch(w, r, generateGreeting(res), now), r)
    /\ UNCHANGED now

\* Mutant of TodosSettles: the payload is stored on the failure path too.
TodosSettlesStoringErrors(r, outcomes) ==
    /\ reqs[r].pc = "todos"
    /\ LET res   == getTodos(outcomes)
           w     == [World(reqs[r]) EXCEPT !.rec.todosCalls = @ + 1]
           built == IF res.ok
                    THEN buildTodosPayload(w.rec.ctx, w.rec.greeting, res.value)
                    ELSE res
       IN  Commit(IF built.ok
                  THEN Succeed(w, r, built.value, now)
                  ELSE Succeed(Fail(w, built.error), r,
                               Fail(w, built.error).rec.payload, now), r)
    /\ UNCHANGED now

\* Mutant of TodosSettles: the calls waiting for the same key share the one
\* upstream fetch and settle with its payload.
TodosSettlesShared(r, outcomes) ==
    /\ reqs[r].pc = "todos"
    /\ LET res   == getTodos(outcomes)
           w     == [World(reqs[r]) EXCEPT !.rec.todosCalls = @ + 1]
           built == IF res.ok
                    THEN buildTodosPayload(w.rec.ctx, w.rec.greeting, res.value)
                    ELSE res
           after == IF built.ok THEN Succeed(w, r, built.value, now)
                                ELSE Fail(w, built.error)
       IN  /\ publicBootstrapCache' = after.pub
           /\ privateBootstrapCache' = after.priv
           /\ writes' = after.writes
           /\ reqs' = [q \in 1..Len(reqs) |->
                         IF q = r THEN after.rec
                         ELSE IF reqs[q].pc = "todos" /\ reqs[q].key = reqs[r].key
                              THEN [reqs[q] EXCEPT !.pc = "done",
                                                   !.payload = after.rec.payload,
                                                   !.settled = "resolved"]
                              ELSE reqs[q]]
           /\ UNCHANGED <<httpVars, cacheVars, webVars>>
    /\ UNCHANGED now

\* getTodos settles: the listing payload is built and stored, or the catch
\* block runs.
TodosSettles(r, outcomes) ==
    /\ reqs[r].pc = "todos"
    /\ LET res   == getTodos(outcomes)
           w     == [World(reqs[r]) EXCEPT !.rec.todosCalls = @ + 1]
           built == IF res.ok
                    THEN buildTodosPayload(w.rec.ctx, w.rec.greeting, res.value)
                    ELSE res
       IN  Commit(IF built.ok THEN Succeed(w, r, built.value, now)
                              ELSE Fail(w, built.error), r)
    /\ UNCHANGED now

Tick ==
    /\ now + TickMs <= MaxTicks * TickMs
    /\ now' = now + TickMs
    /\ UNCHANGED <<bootVars, httpVars, cacheVars, webVars>>

\* The periodic sweep of each cache (setInterval in the constructor).
Cleanup ==
    /\ publicBootstrapCache' = TTLCacheCleanup(publicBootstrapCache, now)
    /\ privateBootstrapCache' = TTLCacheCleanup(privateBootstrapCache, now)
    /\ UNCHANGED <<now, reqs, writes, httpVars, cacheVars, webVars>>

\* ------------------------------------------------------------------------
\* getJson, one await at a time
\* ------------------------------------------------------------------------

\* Largest opts.retries tried.
MaxRetries == 2

\* Statuses the upstream answers with.
HttpStatuses == {200, 404, 503}

\* response.ok
ResponseOk(status) == status >= 200 /\ status <= 299

HttpIdle ==
    [pc |-> "idle", attempt |-> 0, maxRetries |-> 0, status |-> 0,
     lastError |-> NoError, result |-> NullValue,
     ctx |-> NullValue, client |-> NullValue, url |-> <<>>]

\* The console lines: logRequest, the FAILED line of the catch block and the
\* "Retrying in" line.  status is 0 where the line carries none.
LogLine(line, attempt, status) == [line |-> line, attempt |-> attempt, status |-> status]

\* clearTimeout(timeoutId)
clearTimeout(timers, timeoutId) == timers \ {timeoutId}

\* The head of the loop body: a new AbortController, its fuse, the request.
StartAttemptUntraced(attempt, timers, bound, url) ==
    /\ fuses' = timers \cup {attempt}
    /\ sent' = Append(sent, [attempt |-> attempt, method |-> "GET", url |-> url,
                             accept |-> <<"application/json">>,
                             xRequestId |-> Null])

StartAttempt(attempt, timers, bound, url) ==
    /\ fuses' = timers \cup {attempt}
    /\ sent' = Append(sent, [attempt |-> attempt, method |-> "GET", url |-> url,
                             accept |-> <<"application/json">>,
                             xRequestId |-> bound.requestId])

HttpTerminated == http.pc \in {"returned", "thrown"}

\* The inbound request on whose behalf the upstream is called: a session on
\* the listing route, which makes the identity call and the listing call.
TracedRequest == Request(<<"session=", "a">>, <<>>, Query(TodosRoute))

\* The r-th inbound request creates its client (createHttpClient({ requestId:
\* ctx.requestId })) and getJson(url, opts) is called on it with opts.retries
\* = retries.
HttpCall(r, url, retries) ==
    /\ http.pc = "idle"
    /\ LET ctx    == buildRequestContext(TracedRequest, Query(TodosRoute), r)
           bound  == createHttpClient([requestId |-> ctx.requestId])
       IN  /\ http' = [http EXCEPT !.pc = "fetch", !.maxRetries = retries,
                                   !.ctx = ctx, !.client = bound, !.url = url]
           /\ StartAttempt(0, fuses, bound, url)
    /\ UNCHANGED <<aborted, ends, fired, console>>
    /\ UNCHANGED <<now, bootVars, cacheVars, webVars>>

\* A pending fuse fires: controller.abort() of the attempt that armed it.
FuseFires(a) ==
    /\ a \in fuses
    /\ fuses' = fuses \ {a}
    /\ aborted' = aborted \cup {a}
    /\ fired' = Append(fired, [fuse |-> a, during |-> http.attempt, pc |-> http.pc])
    /\ UNCHANGED <<http, sent, ends, console>>
    /\ UNCHANGED <<now, bootVars, cacheVars, webVars>>

\* Mutant of Catch: a retryable error is retried whatever the number of the
\* attempt.
CatchRetryingOn(error, end, base) ==
    LET failed == Append(base, LogLine("failed", http.attempt, 0))
    IN  /\ ends' = Append(ends, end)
        /\ IF ~isRetryable(error)
           THEN /\ http' = [http EXCEPT !.pc = "thrown", !.lastError = error,
                                        !.result = error]
                /\ fuses' = clearTimeout(fuses, http.attempt)
                /\ console' = failed
           ELSE /\ http' = [http EXCEPT !.pc = "sleep", !.lastError = error]
                /\ fuses' = fuses
                /\ console' = Append(failed, LogLine("retrying", http.attempt, 0))
        /\ UNCHANGED <<aborted, sent, fired>>
        /\ UNCHANGED <<now, bootVars, cacheVars, webVars>>

\* The catch block and the finally clause after it, entered with error; end
\* is how the attempt ended and base the console lines so far.
Catch(error, end, base) ==
    LET failed == Append(base, LogLine("failed", http.attempt, 0))
    IN  /\ ends' = Append(ends, end)
        /\ IF ~isRetryable(error) \/ http.attempt >= http.maxRetries
           THEN /\ http' = [http EXCEPT !.pc = "thrown", !.lastError = error,
                                        !.result = error]
                /\ fuses' = clearTimeout(fuses, http.attempt)
                /\ console' = failed
           ELSE /\ http' = [http EXCEPT !.pc = "sleep", !.lastError = error]
                /\ fuses' = fuses
                /\ console' = Append(failed, LogLine("retrying", http.attempt, 0))
        /\ UNCHANGED <<aborted, sent, fired>>
        /\ UNCHANGED <<now, bootVars, cacheVars, webVars>>

\* fetch resolves with a response: logRequest, then the body is read.
FetchResponds(status) ==
    /\ http.pc = "fetch"
    /\ http.attempt \notin aborted
    /\ http' = [http EXCEPT !.pc = IF ResponseOk(status) THEN "json" ELSE "text",
                            !.status = status]
    /\ console' = Append(console, LogLine("request", http.attempt, status))
    /\ UNCHANGED <<fuses, aborted, sent, ends, fired>>
    /\ UNCHANGED <<now, bootVars, cacheVars, webVars>>

\* fetch rejects with a TypeError: no connection.
FetchFails ==
    /\ http.pc = "fetch"
    /\ http.attempt \notin aborted
    /\ Catch(AttemptError(NetworkOutcome), [kind |-> "network", responded |-> FALSE], console)

\* fetch rejects with an AbortError: the fuse of the attempt has fired.
FetchAborted ==
    /\ http.pc = "fetch"
    /\ http.attempt \in aborted
    /\ Catch(AttemptError(TimeoutOutcome), [kind |-> "timeout", responded |-> FALSE], console)

\* response.text().catch(() => "") settles on a non-2xx answer; the Error
\* with the status line is thrown.
TextSettles(body) ==
    /\ http.pc = "text"
    /\ LET errorBody == IF http.attempt \in aborted THEN <<>> ELSE body
       IN  Catch(AttemptError(StatusOutcome(http.status, errorBody)),
                 [kind |-> "status", responded |-> TRUE], console)

\* response.json() resolves: getJson returns through the finally clause.
JsonParses(json) ==
    /\ http.pc = "json"
    /\ http.attempt \notin aborted
    /\ http' = [http EXCEPT !.pc = "returned", !.result = json]
    /\ fuses' = clearTimeout(fuses, http.attempt)
    /\ ends' = Append(ends, [kind |-> "ok", responded |-> TRUE])
    /\ UNCHANGED <<aborted, sent, fired, console>>
    /\ UNCHANGED <<now, bootVars, cacheVars, webVars>>

\* response.json() rejects with a SyntaxError: the body is not JSON.
JsonRejects ==
    /\ http.pc = "json"
    /\ http.attempt \notin aborted
    /\ Catch(AttemptError(UnparseableOutcome),
             [kind |-> "unparseable", responded |-> TRUE], console)

\* response.json() rejects with an AbortError: the fuse fired while the body
\* was being read.
JsonAborted ==
    /\ http.pc = "json"
    /\ http.attempt \in aborted
    /\ Catch(AttemptError(TimeoutOutcome), [kind |-> "timeout", responded |-> TRUE], console)

\* Mutant of SleepEnds: the timer is released at the end of the try and
\* catch paths that leave getJson, not in a finally clause.
SleepEndsKeepingFuse ==
    /\ http.pc = "sleep"
    /\ http' = [http EXCEPT !.pc = "fetch", !.attempt = @ + 1, !.status = 0]
    /\ StartAttempt(http.attempt + 1, fuses, http.client, http.url)
    /\ UNCHANGED <<aborted, ends, fired, console>>
    /\ UNCHANGED <<now, bootVars, cacheVars, webVars>>

\* sleep(backoffMs) resolves: the finally clause of the attempt, then the
\* next turn of the loop.
SleepEnds ==
    /\ http.pc = "sleep"
    /\ http' = [http EXCEPT !.pc = "fetch", !.attempt = @ + 1, !.status = 0]
    /\ StartAttempt(http.attempt + 1, clearTimeout(fuses, http.attempt),
                    http.client, http.url)
    /\ UNCHANGED <<aborted, ends, fired, console>>
    /\ UNCHANGED <<now, bootVars, cacheVars, webVars>>

\* ------------------------------------------------------------------------
\* TTLCache, method by method
\* ------------------------------------------------------------------------

\* maxSize of the cache driven here.
CacheMaxSize == 1

\* Ticks of the clock while the cache is driven.
MaxCacheTicks == 3

\* The keys written and read; <<>> is the empty string.
CacheKeys == {<<>>, <<"k1">>, <<"k2">>}

CacheValues == {[v |-> 1], [v |-> 2]}

NotLive == [present |-> FALSE]

MapKeys(map) == {map[i].key : i \in 1..Len(map)}

\* invalidate(pattern); matching is the set of keys pattern.test accepts.
TTLCacheInvalidate(c, matching) ==
    [c EXCEPT !.map = SelectSeq(@, LAMBDA e : e.key \notin matching)]

NoGet == [done |-> FALSE]

CacheSet(key, value) ==
    /\ ttlCache' = TTLCacheSet(ttlCache, key, value, now)
    /\ live' = [k \in CacheKeys |->
                  IF k = key THEN [present |-> TRUE, value |-> value, at |-> now]
                  ELSE IF k \in MapKeys(ttlCache.map) \ MapKeys(ttlCache'.map)
                       THEN NotLive
                       ELSE live[k]]
    /\ UNCHANGED <<lastGet, now, bootVars, httpVars, webVars>>

CacheGet(key) ==
    /\ LET got == TTLCacheGet(ttlCache, key, now)
       IN  /\ ttlCache' = got.cache
           /\ lastGet' = [done |-> TRUE, key |-> key, value |-> got.value,
                          at |-> now, had |-> live[key],
                          expiresAtMs |-> IF MapHas(ttlCache.map, key)
                                          THEN ttlCache.map[MapIndex(ttlCache.map, key)].expiresAtMs
                                          ELSE -1,
                          gone |-> ~MapHas(got.cache.map, key)]
    /\ UNCHANGED <<live, now, bootVars, httpVars, webVars>>

CacheDelete(key) ==
    /\ ttlCache' = TTLCacheDelete(ttlCache, key)
    /\ live' = [live EXCEPT ![key] = NotLive]
    /\ UNCHANGED <<lastGet, now, bootVars, httpVars, webVars>>

CacheClear ==
    /\ ttlCache' = TTLCacheClear(ttlCache)
    /\ live' = [k \in CacheKeys |-> NotLive]
    /\ UNCHANGED <<lastGet, now, bootVars, httpVars, webVars>>

CacheInvalidate(matching) ==
    /\ ttlCache' = TTLCacheInvalidate(ttlCache, matching)
    /\ live' = [k \in CacheKeys |-> IF k \in matching THEN NotLive ELSE live[k]]
    /\ UNCHANGED <<lastGet, now, bootVars, httpVars, webVars>>

\* The periodic sweep.
CacheCleanup ==
    /\ ttlCache' = TTLCacheCleanup(ttlCache, now)
    /\ UNCHANGED <<live, lastGet, now, bootVars, httpVars, webVars>>

CacheTick ==
    /\ now + TickMs <= MaxCacheTicks * TickMs
    /\ now' = now + TickMs
    /\ UNCHANGED <<bootVars, httpVars, cacheVars, webVars>>

\* ------------------------------------------------------------------------
\* applyCachePolicy
\* ------------------------------------------------------------------------

CacheModes == {"html", "bootstrap", "data", "static", "other"}

\* Requests without a session cookie and without credentials.
AnonymousRequests ==
    {Request(c, a, NoQuery) :
        c \in {<<>>, <<"theme=", "dark">>, <<"sess=", "a">>},
        a \in {<<>>, <<" ">>, <<" ", " ">>}}

\* Requests with a session cookie, an Authorization header, or both.
AuthenticatedRequests ==
    {Request(c, a, NoQuery) :
        c \in {<<"session=", "a">>, <<"theme=", "dark", ";", " ", "session=", "b">>},
        a \in {<<>>, <<" ">>, <<"Bearer", " ", "t">>}}
    \cup
    {Request(c, a, NoQuery) :
        c \in {<<>>, <<"theme=", "dark">>},
        a \in {<<"Bearer", " ", "t">>, <<" ", "Basic", " ", "x", " ">>}}

\* A response on which no header is set yet.
NewResponse == [headers |-> <<>>]

\* res.setHeader(name, value)
setHeader(res, name, value) ==
    [res EXCEPT !.headers =
        [h \in DOMAIN res.headers \cup {name} |->
            IF h = name THEN value ELSE res.headers[h]]]

\* Mutant of applyCachePolicy: the static mode is served before the
\* authentication check.
applyCachePolicyStaticFirst(req, res, mode) ==
    LET authed == isAuthenticated(req)
        varied == setHeader(res, "Vary", "Accept-Encoding")
    IN  IF mode = "static"
        THEN setHeader(varied, "Cache-Control", "public, max-age=31536000, immutable")
        ELSE IF authed
        THEN setHeader(varied, "Cache-Control", "private, no-store")
        ELSE CASE mode = "html" ->
                      setHeader(varied, "Cache-Control",
                          "public, max-age=0, s-maxage=60, stale-while-revalidate=300")
               [] mode = "bootstrap" ->
                      setHeader(varied, "Cache-Control",
                          "public, max-age=0, s-maxage=30, stale-while-revalidate=120")
               [] mode = "data" ->
                      setHeader(varied, "Cache-Control",
                          "public, max-age=0, s-maxage=120, stale-while-revalidate=600")
               [] OTHER ->
                      setHeader(varied, "Cache-Control", "private, no-store")

\* applyCachePolicy(req, res, mode): the response afterwards.
applyCachePolicy(req, res, mode) ==
    LET authed == isAuthenticated(req)
        varied == setHeader(res, "Vary", "Accept-Encoding")
    IN  IF authed
        THEN setHeader(varied, "Cache-Control", "private, no-store")
        ELSE CASE mode = "html" ->
                      setHeader(varied, "Cache-Control",
                          "public, max-age=0, s-maxage=60, stale-while-revalidate=300")
               [] mode = "bootstrap" ->
                      setHeader(varied, "Cache-Control",
                          "public, max-age=0, s-maxage=30, stale-while-revalidate=120")
               [] mode = "data" ->
                      setHeader(varied, "Cache-Control",
                          "public, max-age=0, s-maxage=120, stale-while-revalidate=600")
               [] mode = "static" ->
                      setHeader(varied, "Cache-Control",
                          "public, max-age=31536000, immutable")
               [] OTHER ->
                      setHeader(varied, "Cache-Control", "private, no-store")

PolicyIdle == [pc |-> "idle"]

\* A handler is about to call applyCachePolicy(req, res, mode).
PolicyCall(req, mode) == [pc |-> "call", req |-> req, mode |-> mode, res |-> NewResponse]

ApplyCachePolicy ==
    /\ policy.pc = "call"
    /\ policy' = [policy EXCEPT !.pc  = "done",
                                !.res = applyCachePolicy(policy.req, policy.res, policy.mode)]
    /\ UNCHANGED <<now, bootVars, httpVars, cacheVars, edgeVars, processVars, renderVars, clientVars>>

\* ------------------------------------------------------------------------
\* Text of the server-rendered document
\* ------------------------------------------------------------------------

\* Text is a sequence of tokens.  Each of the characters < > & ' " $ \ is a
\* token of its own wherever it occurs in data; a longer token is a run of
\* other characters or a piece of markup.

RECURSIVE Concat(_)
\* seqs[1] \o seqs[2] \o ...
Concat(seqs) ==
    IF Len(seqs) = 0 THEN <<>>
    ELSE IF Len(seqs) = 1 THEN seqs[1]
    ELSE LET half == Len(seqs) \div 2
         IN  Concat(SubSeq(seqs, 1, half))
                 \o Concat(SubSeq(seqs, half + 1, Len(seqs)))

\* parts[1] sep parts[2] sep ... (Array.prototype.join, and the commas of
\* JSON.stringify).
Join(parts, sep) ==
    Concat([i \in 1..Len(parts) |-> IF i = 1 THEN parts[i] ELSE sep \o parts[i]])

\* JSON.stringify of one character of a string.
QuoteChar(t) ==
    CASE t = "\"" -> <<"\\", "\"">>
      [] t = "\\" -> <<"\\", "\\">>
      [] OTHER    -> <<t>>

\* JSON.stringify of a string.
JsonString(s) == <<"\"">> \o Concat([i \in 1..Len(s) |-> QuoteChar(s[i])]) \o <<"\"">>

\* JSON.stringify of one member: "key":value
JsonMember(key, value) == <<"\"", key, "\"", ":">> \o value

\* JSON.stringify of an object, given its members in insertion order.
JsonObjectText(members) == <<"{">> \o Join(members, <<",">>) \o <<"}">>

JsonArrayText(items) == <<"[">> \o Join(items, <<",">>) \o <<"]">>

JsonBoolean(b) == IF b THEN <<"true">> ELSE <<"false">>

JsonNumber(n) == <<ToString(n)>>

\* The properties a listing record can have, in the order in which the
\* upstream writes them and toInternalTodo copies them.
TodoProperties == <<"userId", "id", "title", "completed", "dueDate">>

\* JSON.stringify of the value of one property of a listing record.
StringifyTodoValue(key, value) ==
    CASE key \in {"userId", "id"}    -> JsonNumber(value)
      [] key \in {"title", "dueDate"} -> JsonString(value)
      [] key = "completed"            -> JsonBoolean(value)

\* JSON.stringify of a listing record: every property the object has.
StringifyTodo(todo) ==
    LET Own(key) == key \in DOMAIN todo
        keys     == SelectSeq(TodoProperties, Own)
    IN  JsonObjectText([i \in 1..Len(keys) |->
                           JsonMember(keys[i], StringifyTodoValue(keys[i], todo[keys[i]]))])

\* JSON.stringify of bootstrap.page, members in the order the factory
\* functions write them.
StringifyPage(page) ==
    CASE page.kind = "home"  ->
             JsonObjectText(<<JsonMember("kind", JsonString(<<"home">>))>>)
      [] page.kind = "todos" ->
             JsonObjectText(
                 <<JsonMember("kind", JsonString(<<"todos">>)),
                   JsonMember("todos",
                       JsonArrayText([i \in 1..Len(page.todos) |->
                                         StringifyTodo(page.todos[i])]))>>)
      [] page.kind = "error" ->
             JsonObjectText(
                 <<JsonMember("kind", JsonString(<<"error">>)),
                   JsonMember("status", JsonNumber(page.status)),
                   JsonMember("code", JsonString(<<page.code>>)),
                   JsonMember("message", JsonString(page.message))>>)

\* JSON.stringify(bootstrap)
StringifyBootstrap(payload) ==
    JsonObjectText(<<JsonMember("route", JsonString(payload.route)),
                     JsonMember("greeting", JsonString(payload.greeting)),
                     JsonMember("page", StringifyPage(payload.page))>>)

\* text.replace(/</g, "\\u003c")
EscapeLessThan(text) ==
    [i \in 1..Len(text) |-> IF text[i] = "<" THEN "\\u003c" ELSE text[i]]

\* escapeJsonForHtml(bootstrap)
escapeJsonForHtml(payload) == EscapeLessThan(StringifyBootstrap(payload))

\* The first index at which pat occurs in s, 0 if none.
IndexOf(s, pat) ==
    LET at == {i \in 1..Len(s) : IsAt(s, pat, i)}
    IN  IF at = {} THEN 0 ELSE CHOOSE i \in at : \A j \in at : i <= j

\* The token of the grave accent (U+0060).
Grave == "U+0060"

\* The characters that form a replacement pattern after a dollar sign.
PatternChars == {"$", "&", Grave, "'"}

\* The number of dollar signs that immediately precede position i of s.
DollarsBefore(s, i) ==
    LET runs == {k \in 0..(i - 1) : \A j \in (i - k)..(i - 1) : s[j] = "$"}
    IN  CHOOSE k \in runs : \A l \in runs : l <= k

\* Position i of a replacement text starts a pattern: a dollar sign that no
\* earlier pattern has consumed, followed by a pattern character.
StartsPattern(s, i) ==
    /\ s[i] = "$"
    /\ DollarsBefore(s, i) % 2 = 0
    /\ i < Len(s)
    /\ s[i + 1] \in PatternChars

\* The replacement text of String.prototype.replace: $$ is a dollar sign, $&
\* the matched text, $ and a grave accent the text before the match, $' the
\* text after it.  Patterns are read from left to right.
GetSubstitution(replacement, matched, before, after) ==
    Concat([i \in 1..Len(replacement) |->
        IF i > 1 /\ StartsPattern(replacement, i - 1) THEN <<>>
        ELSE IF StartsPattern(replacement, i)
        THEN (CASE replacement[i + 1] = "$"   -> <<"$">>
                [] replacement[i + 1] = "&"   -> matched
                [] replacement[i + 1] = Grave -> before
                [] replacement[i + 1] = "'"   -> after)
        ELSE <<replacement[i]>>])

\* s.replace(pat, replacement) for a pattern without the g flag: the first
\* match only, s itself if there is none.
StringReplace(s, pat, replacement) ==
    LET i == IndexOf(s, pat)
    IN  IF i = 0 THEN s
        ELSE LET before == SubSeq(s, 1, i - 1)
                 after  == SubSeq(s, i + Len(pat), Len(s))
             IN  before \o GetSubstitution(replacement, pat, before, after) \o after

\* ------------------------------------------------------------------------
\* The store
\* ------------------------------------------------------------------------

\* The value of an argument or a property that is not given.
Undefined == [undefined |-> TRUE]

\* app.bootstrap holding null.
NoBootstrap == [null |-> TRUE]

initialAppState == [message |-> Null, bootstrap |-> NoBootstrap]

\* The cache entry of the query getTodos(undefined) in the api slice.
QueryUninitialized == [status |-> "uninitialized", data |-> <<>>]

QueryPending == [status |-> "pending", data |-> <<>>]

QueryFulfilled(data) == [status |-> "fulfilled", data |-> data]

QueryRejected == [status |-> "rejected", data |-> <<>>]

\* The api slice of a new store.
initialApiState == [getTodos |-> QueryUninitialized]

\* configureStore: each slice starts from the preloaded state if that holds
\* it, from its initial state otherwise.
makeStore(preloadedState) ==
    [app |-> IF preloadedState # Undefined /\ "app" \in DOMAIN preloadedState
             THEN preloadedState.app ELSE initialAppState,
     api |-> IF preloadedState # Undefined /\ "api" \in DOMAIN preloadedState
             THEN preloadedState.api ELSE initialApiState]

setMessage(store, message) == [store EXCEPT !.app.message = message]

setBootstrap(store, payload) == [store EXCEPT !.app.bootstrap = payload]

applyBootstrapToStore(payload, store) ==
    LET set == setBootstrap(store, payload)
    IN  IF payload.page.kind # "error" THEN setMessage(set, payload.greeting)
        ELSE set

\* ------------------------------------------------------------------------
\* The application, rendered to a string
\* ------------------------------------------------------------------------

\* How renderToString writes one character of a text child.
escapeTextChar(t) ==
    CASE t = "&"  -> "&amp;"
      [] t = "<"  -> "&lt;"
      [] t = ">"  -> "&gt;"
      [] t = "\"" -> "&quot;"
      [] t = "'"  -> "&#x27;"
      [] OTHER    -> t

escapeTextForBrowser(text) == [i \in 1..Len(text) |-> escapeTextChar(text[i])]

\* <Home />: effects do not run on the server, the message is the initial one.
Home == <<"<h2>Home</h2>", "<p>", "Loading...", "</p>">>

\* One <li> of the listing.
TodoItem(t) ==
    <<"<li>", IF t.completed THEN "done" ELSE "open", " ">>
        \o escapeTextForBrowser(t.title) \o <<"</li>">>

\* <Todos />
Todos(store) ==
    LET bootstrap == store.app.bootstrap
        query     == store.api.getTodos
    IN  IF bootstrap = NoBootstrap THEN <<"<p>", "Loading...", "</p>">>
        ELSE IF bootstrap.page.kind = "error"
        THEN <<"<h2>Todos</h2>", "<p>">>
                 \o escapeTextForBrowser(bootstrap.page.message) \o <<"</p>">>
        ELSE IF bootstrap.page.kind # "todos"
        THEN <<"<h2>Todos</h2>", "<p>", "This route is not /todos.", "</p>">>
        ELSE IF query.status \in {"pending", "uninitialized"}
        THEN <<"<p>", "Loading todos...", "</p>">>
        ELSE IF query.status = "rejected"
        THEN <<"<p>", "Failed to load todos.", "</p>", "<button>Retry</button>">>
        ELSE <<"<h2>Todos</h2>", "<ul>">>
                 \o Concat([i \in 1..Len(query.data) |-> TodoItem(query.data[i])])
                 \o <<"</ul>">>

\* <About />
About(store) ==
    <<"<h2>About</h2>", "<p>">>
        \o (IF store.app.message = Null THEN <<"Loading...">>
            ELSE escapeTextForBrowser(store.app.message))
        \o <<"</p>">>

NotFound == <<"<h2>Not found</h2>", "<a href=\"/\">Go home</a>">>

HomeRoute == <<"/">>

AboutRoute == <<"/", "about">>

\* renderToString of <App /> under a router at the given location.
App(location, store) ==
    <<"<main class=\"page\">", "<header class=\"header\">...</header>",
      "<section class=\"card\">">>
        \o (CASE location = HomeRoute  -> Home
              [] location = AboutRoute -> About(store)
              [] location = TodosRoute -> Todos(store)
              [] OTHER                 -> NotFound)
        \o <<"</section>", "</main>">>

\* ------------------------------------------------------------------------
\* renderHtml
\* ------------------------------------------------------------------------

\* The pattern /<div id="root"><\/div>/
RootPattern == <<"<div id=\"root\">", "</div>">>

\* The tag of the application bundle that the build writes to index.html.
AppScript == "<script defer src=\"/assets/app.js\"></script>"

BootstrapSlot == "window.__BOOTSTRAP__"

PreloadedStateSlot == "window.__PRELOADED_STATE__"

\* `<script>window.__BOOTSTRAP__=${bootstrapJson};</script>`
injectedBootstrap(payload) ==
    <<"<script>", BootstrapSlot, "=">> \o escapeJsonForHtml(payload)
        \o <<";", "</script>">>

\* The text of the inline scripts of a document that assign to the given
\* window slot: what stands between "<script>slot=" and the next "</script>".
StateScripts(html, slot) ==
    {SubSeq(html, i + 3,
            (CHOOSE j \in (i + 3)..Len(html) :
                 /\ html[j] = "</script>"
                 /\ \A k \in (i + 3)..(j - 1) : html[k] # "</script>") - 1) :
        i \in {a \in 1..Len(html) :
                  /\ IsAt(html, <<"<script>", slot, "=">>, a)
                  /\ \E j \in (a + 3)..Len(html) : html[j] = "</script>"}}

\* The document: the template with the application in the root element and
\* the bootstrap script before </head>, or before </body> in a template
\* that has no </head>.
Document(template, appHtml, payload) ==
    LET withRoot ==
            StringReplace(template, RootPattern,
                          <<"<div id=\"root\">">> \o appHtml \o <<"</div>">>)
    IN  IF Includes(withRoot, <<"</head>">>)
        THEN StringReplace(withRoot, <<"</head>">>,
                           injectedBootstrap(payload) \o <<"</head>">>)
        ELSE StringReplace(withRoot, <<"</body>">>,
                           injectedBootstrap(payload) \o <<"</body>">>)

\* What renderHtml returns once the store is filled.
Rendered(opts, template, store) ==
    Document(template, App(opts.ctx.route, store), opts.bootstrap)

\* Greetings: the anonymous one, and "Welcome back, " followed by a name the
\* upstream served.
Greetings ==
    {<<"Welcome">>,
     <<"Welcome back, ", "<", "/script", ">">>,
     <<"Welcome back, ", "&", "'", "\"">>,
     <<"Welcome back, ", "$", "$">>,
     <<"Welcome back, ", "$", "&">>}

Todo(id, title, completed) == [id |-> id, title |-> title, completed |-> completed]

\* Listings, as the bootstrap carries them and as GET /api/todos serves them.
TodoLists ==
    {<<>>,
     <<Todo(1, <<"t">>, FALSE)>>,
     <<Todo(1, <<"t">>, FALSE), Todo(2, <<"<", "b", ">">>, TRUE)>>}

\* The bootstraps handed to the renderer: home, listing and error variants.
Bootstraps ==
    {makeHomeBootstrap(r, g) : r \in {HomeRoute, AboutRoute}, g \in Greetings}
        \cup {makeTodosBootstrap(TodosRoute, g, l) : g \in Greetings, l \in TodoLists}
        \cup {makeErrorBootstrap(TodosRoute,
                                 [status  |-> 500,
                                  code    |-> BOOTSTRAP_ERROR_CODES[c],
                                  message |-> BOOTSTRAP_ERROR_MESSAGES[c]]) :
                  c \in {"TIMEOUT", "UPSTREAM"}}

\* The arguments of renderHtml; of ctx only the route is read, and it is the
\* route the bootstrap was built for.
RenderOpts ==
    {[ctx |-> [route |-> b.route], bootstrap |-> b,
      assetScriptSrc |-> "/assets/app.js"] : b \in Bootstraps}

\* static/index.html as the build can write it: the bundle's tag at the end
\* of the body, the bundle's tag in the head, and a document without a head.
Templates ==
    {<<"<!doctype html>", "<html>", "<head>", "<title>Restart</title>", "</head>",
       "<body>", "<div id=\"root\">", "</div>", AppScript, "</body>", "</html>">>,
     <<"<!doctype html>", "<html>", "<head>", "<title>Restart</title>", AppScript,
       "</head>", "<body>", "<div id=\"root\">", "</div>", "</body>", "</html>">>,
     <<"<!doctype html>", "<html>", "<body>", "<div id=\"root\">", "</div>",
       AppScript, "</body>", "</html>">>}

\* How GET /api/todos can end for the renderer's query.
QueryOutcomes == {QueryFulfilled(l) : l \in TodoLists} \cup {QueryRejected}

\* The request of the query getTodos: baseUrl "/api", query "/todos".
GetTodosRequest == <<"GET", " ", "/", "api", "/", "todos">>

\* Calls of renderHtml at most.
MaxRenders == 2

\* renderHtml up to its first await: a new store, the bootstrap applied, and
\* for the listing variant the query getTodos started.  A call for another
\* variant runs to its end.  Calls after the first repeat its arguments and
\* read the same index.html.
RenderHtml(opts, template) ==
    /\ Len(renders) < MaxRenders
    /\ renders # <<>> =>
           opts = renders[1].opts /\ template = renders[1].template
    /\ LET store == applyBootstrapToStore(opts.bootstrap, makeStore(Undefined))
       IN  renders' = Append(renders,
               IF opts.bootstrap.page.kind = "todos"
               THEN [opts     |-> opts,
                     template |-> template,
                     pc       |-> "query",
                     store    |-> [store EXCEPT !.api.getTodos = QueryPending],
                     requests |-> <<GetTodosRequest>>,
                     html     |-> <<>>]
               ELSE [opts     |-> opts,
                     template |-> template,
                     pc       |-> "done",
                     store    |-> store,
                     requests |-> <<>>,
                     html     |-> Rendered(opts, template, store)])
    /\ UNCHANGED <<now, bootVars, httpVars, cacheVars, edgeVars, processVars, policyVars, clientVars>>

\* The running query of call i settles, and the call renders the application
\* and returns the document.
QuerySettles(i, outcome) ==
    /\ i \in 1..Len(renders)
    /\ renders[i].pc = "query"
    /\ LET store == [renders[i].store EXCEPT !.api.getTodos = outcome]
       IN  renders' = [renders EXCEPT
               ![i].pc    = "done",
               ![i].store = store,
               ![i].html  = Rendered(renders[i].opts, renders[i].template, store)]
    /\ UNCHANGED <<now, bootVars, httpVars, cacheVars, edgeVars, processVars, policyVars, clientVars>>

\* ------------------------------------------------------------------------
\* The window slots
\* ------------------------------------------------------------------------

\* Values a window slot can hold.  A slot that is not set holds Undefined; an
\* object is a record of its properties, a primitive value a record with the
\* name of its type.
JsNull == [null |-> TRUE]

JsNumber(n) == [number |-> n]

JsString(s) == [string |-> s]

JsBoolean(b) == [boolean |-> b]

\* !value is false
ToBoolean(value) ==
    value \notin {Undefined, JsNull, JsNumber(0), JsString(<<>>), JsBoolean(FALSE)}

\* typeof value === "object" && value !== null
IsObject(value) ==
    DOMAIN value \cap {"undefined", "null", "number", "string", "boolean"} = {}

\* isValidBootstrapPayload(value); a route that is not a string is written
\* as the null string.
isValidBootstrapPayload(value) ==
    /\ IsObject(value)
    /\ "route" \in DOMAIN value /\ value.route # Null
    /\ "page" \in DOMAIN value /\ IsObject(value.page)
    /\ "kind" \in DOMAIN value.page
    /\ value.page.kind \in {"home", "todos", "error"}

\* isValidPreloadedState(value)
isValidPreloadedState(value) == IsObject(value) /\ "app" \in DOMAIN value

\* Reading a slot that holds raw with the given validator: the value
\* returned (JsNull for null) and what the slot holds afterwards.
ReadSlotDeletingWhenValid(raw, valid) ==
    IF ~ToBoolean(raw) THEN [value |-> JsNull, slot |-> raw]
    ELSE IF ~valid THEN [value |-> JsNull, slot |-> raw]
    ELSE [value |-> raw, slot |-> Undefined]

ReadSlot(raw, valid) ==
    IF ~ToBoolean(raw) THEN [value |-> JsNull, slot |-> raw]
    ELSE IF ~valid THEN [value |-> JsNull, slot |-> Undefined]
    ELSE [value |-> raw, slot |-> Undefined]

\* readBootstrapFromWindow() on a window
readBootstrapFromWindow(w) == ReadSlot(w.bootstrap, isValidBootstrapPayload(w.bootstrap))

\* readPreloadedStateFromWindow() on a window
readPreloadedStateFromWindow(w) ==
    ReadSlot(w.preloaded, isValidPreloadedState(w.preloaded))

\* ------------------------------------------------------------------------
\* The client: page load and start()
\* ------------------------------------------------------------------------

\* Bootstraps as a browser can read them out of a document: those the
\* renderer was given, and those with a greeting that String.replace has
\* rewritten while the script was put before </head> or </body>.
ParsedBootstraps ==
    Bootstraps
        \cup {[b EXCEPT !.greeting = GetSubstitution(b.greeting, <<tag>>, <<>>, <<>>)] :
                 b \in Bootstraps, tag \in {"</head>", "</body>"}}

\* The value that an inline state script assigns, given what it holds after
\* the "=": the payload whose text followed by ";" that is, Undefined if
\* the script is of no such form.
Evaluate(text) ==
    LET values == {p \in ParsedBootstraps : escapeJsonForHtml(p) \o <<";">> = text}
    IN  IF values = {} THEN Undefined ELSE CHOOSE p \in values : TRUE

\* The window after the browser has loaded a document at the given path:
\* its inline scripts have run and the root element holds the markup.
LoadDocument(html, path) ==
    LET scripts == StateScripts(html, BootstrapSlot)
        states  == StateScripts(html, PreloadedStateSlot)
    IN  [bootstrap |-> IF scripts = {} THEN Undefined
                       ELSE Evaluate(CHOOSE s \in scripts : TRUE),
         preloaded |-> IF states = {} THEN Undefined
                       ELSE Evaluate(CHOOSE s \in states : TRUE),
         markup    |-> IndexOf(html, RootPattern) = 0,
         path      |-> path]

\* The stores with which the renderer can end a call for a bootstrap.
ServerStores(payload) ==
    LET store == applyBootstrapToStore(payload, makeStore(Undefined))
    IN  IF payload.page.kind = "todos"
        THEN {[store EXCEPT !.api.getTodos = o] : o \in QueryOutcomes}
        ELSE {store}

\* Pages served by renderHtml: the window and the store the server ended
\* the render with.
RenderedPages ==
    UNION {{[window |-> LoadDocument(Rendered(opts, t, s), opts.ctx.route),
             served |-> s] :
               t \in Templates, s \in ServerStores(opts.bootstrap)} :
           opts \in RenderOpts}

\* Pages whose snapshot slot holds the state of a store to which a bootstrap
\* was applied, with the bootstrap slot set as well or not.
SnapshotPages ==
    UNION {{[window |-> [bootstrap |-> slot, preloaded |-> s, markup |-> TRUE,
                         path |-> b.route],
             served |-> s] :
               s \in ServerStores(b), slot \in {b, Undefined}} :
           b \in Bootstraps}

\* What else the bootstrap slot can hold: nothing, values that are not
\* objects, and objects of another shape.
OtherBootstrapSlots ==
    {Undefined, JsNull, JsNumber(0), JsString(<<>>), JsBoolean(FALSE),
     JsString(<<"x">>),
     [route |-> HomeRoute],
     [route |-> Null, page |-> [kind |-> "home"]],
     [route |-> HomeRoute, page |-> JsNull],
     [route |-> HomeRoute, page |-> [kind |-> "other"]],
     makeTodosBootstrap(TodosRoute, <<"Welcome">>, <<Todo(1, <<"t">>, FALSE)>>)}

\* What else the snapshot slot can hold.
OtherPreloadedSlots ==
    {Undefined, JsNull, JsNumber(0), JsString(<<>>), JsBoolean(FALSE),
     JsNumber(1), [api |-> initialApiState], [app |-> initialAppState]}

\* Pages that no server render filled: the root element is empty.
OtherPages ==
    {[window |-> [bootstrap |-> b, preloaded |-> p, markup |-> FALSE,
                  path |-> path],
      served |-> Undefined] :
        b \in OtherBootstrapSlots, p \in OtherPreloadedSlots,
        path \in {HomeRoute, TodosRoute}}

Pages == RenderedPages \cup SnapshotPages \cup OtherPages

\* The client before start() has run.
ClientLoaded ==
    [pc        |-> "loaded",
     store     |-> Undefined,
     mount     |-> "none",
     requests  |-> <<>>,
     slotReads |-> <<>>,
     todosReads |-> <<>>]

\* bootstrap?.page?.kind, "" when there is none.
PageKind(bootstrap) ==
    IF /\ IsObject(bootstrap)
       /\ "page" \in DOMAIN bootstrap
       /\ IsObject(bootstrap.page)
       /\ "kind" \in DOMAIN bootstrap.page
    THEN bootstrap.page.kind ELSE ""

\* preloadedState.app?.bootstrap
EmbeddedBootstrap(preloadedState) ==
    IF IsObject(preloadedState.app) /\ "bootstrap" \in DOMAIN preloadedState.app
    THEN preloadedState.app.bootstrap ELSE Undefined

upsertQueryDataDropped(store, todos) == store

\* api.util.upsertQueryData("getTodos", undefined, todos)
upsertQueryData(store, todos) == [store EXCEPT !.api.getTodos = QueryFulfilled(todos)]

\* One entry of the record of slot reads.
SlotRead(slot, before, read) ==
    [slot |-> slot, before |-> before, after |-> read.slot, value |-> read.value]

\* The store that start() mounts the application with, given what the two
\* slot reads returned.
StartStore(preloaded, bootstrap) ==
    LET preloadedState == IF preloaded = JsNull THEN Undefined ELSE preloaded
        store          == makeStore(preloadedState)
    IN  IF preloadedState # Undefined
        THEN IF PageKind(EmbeddedBootstrap(preloadedState)) = "todos"
             THEN upsertQueryData(store, EmbeddedBootstrap(preloadedState).page.todos)
             ELSE store
        ELSE IF bootstrap # JsNull
        THEN LET applied == applyBootstrapToStore(bootstrap, store)
             IN  IF PageKind(bootstrap) = "todos"
                 THEN upsertQueryData(applied, bootstrap.page.todos)
                 ELSE applied
        ELSE store

\* Reads of the listing dataset at most, and slot reads before the last one.
MaxReads == 2

\* start(): reads the snapshot slot, makes the store, reads the bootstrap
\* slot if there was no snapshot, seeds the store and the query cache, and
\* mounts the application: hydrateRoot over server markup, createRoot
\* otherwise.  It awaits nothing and sends no request.
Start ==
    /\ client.pc = "loaded"
    /\ LET first  == readPreloadedStateFromWindow(window)
           w1     == [window EXCEPT !.preloaded = first.slot]
           second == readBootstrapFromWindow(w1)
           reads  == IF first.value # JsNull
                     THEN <<SlotRead("preloaded", window.preloaded, first)>>
                     ELSE <<SlotRead("preloaded", window.preloaded, first),
                            SlotRead("bootstrap", window.bootstrap, second)>>
       IN  /\ window' = IF first.value # JsNull THEN w1
                        ELSE [w1 EXCEPT !.bootstrap = second.slot]
           /\ client' = [client EXCEPT
                  !.pc        = "mounted",
                  !.store     = StartStore(first.value, second.value),
                  !.mount     = IF window.markup THEN "hydrateRoot" ELSE "createRoot",
                  !.slotReads = reads]
    /\ UNCHANGED <<now, bootVars, httpVars, cacheVars, edgeVars, processVars, policyVars, renderVars, served>>

\* The mounted application reads the listing dataset (useGetTodosQuery): a
\* fulfilled cache entry is returned as it is, a running query is waited
\* for, and otherwise GET /api/todos is sent.
ReadTodos ==
    /\ client.pc = "mounted"
    /\ Len(client.todosReads) < MaxReads
    /\ LET entry == client.store.api.getTodos
           fetch == entry.status \in {"uninitialized", "rejected"}
       IN  client' = [client EXCEPT
               !.store.api.getTodos = IF fetch THEN QueryPending ELSE entry,
               !.requests   = IF fetch THEN Append(@, GetTodosRequest) ELSE @,
               !.todosReads = Append(@, [entry |-> entry, requested |-> fetch])]
    /\ UNCHANGED <<now, bootVars, httpVars, cacheVars, edgeVars, processVars, policyVars, renderVars,
                   window, served>>

\* The client's running query settles.
ClientQuerySettles(outcome) ==
    /\ client.pc = "mounted"
    /\ client.store.api.getTodos = QueryPending
    /\ client' = [client EXCEPT !.store.api.getTodos = outcome]
    /\ UNCHANGED <<now, bootVars, httpVars, cacheVars, edgeVars, processVars, policyVars, renderVars,
                   window, served>>

\* A later call of readBootstrapFromWindow (getBootstrap makes one).
ReadBootstrapAgain ==
    /\ client.pc = "mounted"
    /\ Len(client.slotReads) <= MaxReads
    /\ LET read == readBootstrapFromWindow(window)
       IN  /\ window' = [window EXCEPT !.bootstrap = read.slot]
           /\ client' = [client EXCEPT !.slotReads =
                  Append(@, SlotRead("bootstrap", window.bootstrap, read))]
    /\ UNCHANGED <<now, bootVars, httpVars, cacheVars, edgeVars, processVars, policyVars, renderVars, served>>

\* A later call of readPreloadedStateFromWindow.
ReadPreloadedStateAgain ==
    /\ client.pc = "mounted"
    /\ Len(client.slotReads) <= MaxReads
    /\ LET read == readPreloadedStateFromWindow(window)
       IN  /\ window' = [window EXCEPT !.preloaded = read.slot]
           /\ client' = [client EXCEPT !.slotReads =
                  Append(@, SlotRead("preloaded", window.preloaded, read))]
    /\ UNCHANGED <<now, bootVars, httpVars, cacheVars, edgeVars, processVars, policyVars, renderVars, served>>

\* ------------------------------------------------------------------------
\* Identity: two requests through buildRequestContext, the cache key and
\* applyCachePolicy
\* ------------------------------------------------------------------------

\* A request with one more header, x-user-id; <<>> is the absent header.
WithUserIdHeader(req, value) ==
    [cookie |-> req.cookie, authorization |-> req.authorization,
     query |-> req.query, path |-> req.path, xUserId |-> value]

\* "xsession=1" holds the characters "session=" but no cookie of that name.
IdentityCookies ==
    {<<>>, <<"theme=", "dark">>, <<"session=", "a">>,
     <<"theme=", "dark", ";", " ", "session=", "b">>,
     <<"x", "session=", "1">>}

IdentityAuthorizations == {<<>>, <<" ">>, <<"Bearer", " ", "t">>}

UserIdHeaders == {<<>>, <<"a">>, <<"admin">>}

IdentityRequests ==
    {Request(c, a, NoQuery) : c \in IdentityCookies, a \in IdentityAuthorizations}

\* The Cookie header holds a cookie whose name is exactly "session".
HasSessionCookie(cookie) ==
    \E i \in 1..Len(cookie) :
        /\ cookie[i] = "session="
        /\ i = 1 \/ cookie[i - 1] \in {";", " "}

IdentityIdle == [pc |-> "idle"]

IdentityCall(first, second, mode) ==
    [pc |-> "call", mode |-> mode, handled |-> 0,
     req |-> <<first, second>>, out |-> <<Undefined, Undefined>>]

\* The common opening of the handlers of routes.ts on one of the two
\* requests: buildRequestContext, applyCachePolicy, and the key under which
\* getBootstrapPayload looks the context up.
Handled(req, mode, r) ==
    LET route == IF req.query.present THEN req.query.value ELSE <<"/">>
        ctx   == buildRequestContext(req, [present |-> TRUE, value |-> route], r)
    IN  [ctx |-> ctx, key |-> CacheKey(ctx),
         res |-> applyCachePolicy(req, NewResponse, mode)]

HandleRequest(i) ==
    /\ identity.pc = "call"
    /\ identity.out[i] = Undefined
    /\ identity' = [identity EXCEPT
           !.handled = @ + 1,
           !.out[i] = Handled(identity.req[i], identity.mode, identity.handled + 1)]
    /\ UNCHANGED <<now, bootVars, httpVars, cacheVars, policyVars, renderVars,
                   clientVars, listing, manifest, gets, processVars>>

\* ------------------------------------------------------------------------
\* One upstream listing on its way to the client
\* ------------------------------------------------------------------------

\* Upstream listing records: id, title and completed, and the other fields
\* the upstream serves with them.
UpstreamTodo(id, title, completed) ==
    [userId |-> 1, id |-> id, title |-> title, completed |-> completed]

DatedTodo(id, title, completed) ==
    [userId |-> 7, id |-> id, title |-> title, completed |-> completed,
     dueDate |-> <<"2024-01-01">>]

UpstreamListings ==
    {<<>>,
     <<UpstreamTodo(1, <<"t">>, FALSE)>>,
     <<UpstreamTodo(1, <<"t">>, FALSE), UpstreamTodo(2, <<"u">>, TRUE)>>,
     <<UpstreamTodo(2, <<"u">>, TRUE), UpstreamTodo(1, <<"t">>, FALSE)>>,
     <<DatedTodo(3, <<"userId">>, TRUE)>>,
     <<DatedTodo(3, <<"v">>, FALSE), UpstreamTodo(1, <<"t">>, FALSE),
       DatedTodo(2, <<"u">>, TRUE)>>}

\* The inbound requests for the listing: anonymous, so that the greeting
\* needs no upstream call.
ListingRequest == Request(<<>>, <<>>, Query(TodosRoute))

ListingIdle == [pc |-> "idle"]

ListingServed(upstream, template) ==
    [pc |-> "serve", upstream |-> upstream, template |-> template,
     api |-> NullValue, pages |-> <<>>]

\* What the attempts of getTodos meet when the upstream serves the listing
\* at once, after a timeout, or not at all.
ListingOutcomes ==
    LET ok == OkOutcome(JsonArray(listing.upstream))
    IN  {<<ok, ok>>, <<TimeoutOutcome, ok>>, <<NetworkOutcome, NetworkOutcome>>}

\* The response of GET /api/todos once getTodos has settled: res.json of the
\* mapped records, or of the error object from the catch block.
TodosResponse(res) ==
    IF res.ok
    THEN [status |-> 200,
          body   |-> JsonArrayText([i \in 1..Len(res.value.items) |->
                         StringifyTodo([id        |-> res.value.items[i].id,
                                        title     |-> res.value.items[i].title,
                                        completed |-> res.value.items[i].completed])])]
    ELSE [status |-> 500,
          body   |-> JsonObjectText(
                         <<JsonMember("code", JsonString(<<"TODOS_FAILED">>)),
                           JsonMember("message",
                               JsonString(<<"Failed to load todos. Please try again.">>))>>)]

\* GET /api/todos, the whole handler.
ApiTodos(outcomes) ==
    /\ listing.pc = "serve"
    /\ listing.api = NullValue
    /\ listing' = [listing EXCEPT !.api = TodosResponse(getTodos(outcomes))]
    /\ UNCHANGED <<now, bootVars, httpVars, cacheVars, policyVars, renderVars,
                   clientVars, identity, manifest, gets, processVars>>

\* The SSR handler after getBootstrapPayload has returned for call r:
\* renderHtml({ ctx, bootstrap }) gives the document sent to the browser.
SsrEmbeds(r) ==
    /\ listing.pc = "serve"
    /\ r \in 1..Len(reqs)
    /\ reqs[r].pc = "done"
    /\ \A k \in 1..Len(listing.pages) : listing.pages[k].call # r
    /\ LET payload == reqs[r].payload
           opts    == [ctx |-> reqs[r].ctx, bootstrap |-> payload,
                       assetScriptSrc |-> "/assets/app.js"]
           store   == applyBootstrapToStore(payload, makeStore(Undefined))
       IN  listing' = [listing EXCEPT
               !.pages = Append(@, [call |-> r,
                                    html |-> Rendered(opts, listing.template, store)])]
    /\ UNCHANGED <<now, bootVars, httpVars, cacheVars, policyVars, renderVars,
                   clientVars, identity, manifest, gets, processVars>>

\* ------------------------------------------------------------------------
\* The asset manifest
\* ------------------------------------------------------------------------

\* CACHE_TTL_MS outside production; in production it is Infinity.
CacheTtlMs == 5000

\* The clock of the server advances by half of CACHE_TTL_MS at a time.
ManifestTickMs == CacheTtlMs \div 2

\* Ticks of that clock in one behaviour.
MaxManifestTicks == 3

StaticDir == "/app/static"

\* path.join(staticDir, "manifest.json")
ManifestPath == <<StaticDir, "/", "manifest.json">>

\* What is at ManifestPath: nothing, text that is not JSON, or a JSON object,
\* given by its members in the order in which they are written.
FileAbsent == [kind |-> "absent"]

FileTruncated == [kind |-> "text"]

FileObject(members) == [kind |-> "json", members |-> members]

ManifestEntry(key, value) == [key |-> key, value |-> value]

ManifestFiles ==
    {FileAbsent, FileTruncated,
     FileObject(<<>>),
     FileObject(<<ManifestEntry("app.js", <<"/assets/app.1.js">>)>>),
     FileObject(<<ManifestEntry("app.js", <<"/assets/app.2.js">>),
                  ManifestEntry("app.css", <<"/assets/app.2.css">>)>>),
     FileObject(<<ManifestEntry("vendor.js", <<"/assets/vendor.1.js">>),
                  ManifestEntry("app.css", <<"/assets/app.1.css">>)>>)}

\* cachedManifest is null or the object that JSON.parse returned.
ManifestObject(members) == [members |-> members]

\* manifest[key]: the value of the member, Undefined if there is none.
ManifestGet(object, key) ==
    LET at == {i \in 1..Len(object.members) : object.members[i].key = key}
    IN  IF at = {} THEN Undefined
        ELSE JsString(object.members[CHOOSE i \in at : TRUE].value)

\* a || b
OrElse(a, b) == IF ToBoolean(a) THEN a ELSE b

\* Mutant of CacheValid: the TTL of development holds in production too.
CacheValidEverywhere(cached, timestamp, env, t) ==
    /\ cached # JsNull
    /\ t - timestamp < CacheTtlMs

\* The cached manifest is served: it is there and younger than the TTL.
\* In production the TTL is Infinity, and any finite age is below it.
CacheValid(cached, timestamp, env, t) ==
    /\ cached # JsNull
    /\ env = "production" \/ t - timestamp < CacheTtlMs

\* Mutant of ManifestError: the errors of fs.readFile and JSON.parse are
\* thrown on as they are.
ManifestErrorRaw(content) ==
    IF content.kind = "absent"
    THEN [name |-> "Error", message |-> <<"ENOENT: no such file or directory">>]
    ELSE [name |-> "SyntaxError", message |-> <<"Unexpected end of JSON input">>]

\* The error readManifest throws on a file it cannot read or parse.
ManifestError(content) ==
    IF content.kind = "absent"
    THEN [name |-> "Error",
          message |-> <<"Manifest file not found at ">> \o ManifestPath
                         \o <<". ", "Did you run 'npm run build' in the web app?">>]
    ELSE [name |-> "Error",
          message |-> <<"Invalid JSON in manifest file at ">> \o ManifestPath
                         \o <<": ", "Unexpected end of JSON input">>]

\* Object.keys(manifest).join(", ")
AvailableKeys(object) ==
    Join([i \in 1..Len(object.members) |-> <<object.members[i].key>>], <<", ">>)

\* resolveAssets once readManifest has returned the object.
PickAssets(object) ==
    LET mainScript == OrElse(ManifestGet(object, "app.js"), ManifestGet(object, "main.js"))
        mainStyle  == OrElse(OrElse(ManifestGet(object, "app.css"),
                                    ManifestGet(object, "main.css")), JsNull)
    IN  IF ~ToBoolean(mainScript)
        THEN [ok |-> FALSE,
              error |-> [name |-> "Error",
                         message |-> <<"Could not find main script in manifest. ",
                                       "Available entries: ">>
                                        \o (IF AvailableKeys(object) = <<>>
                                            THEN <<"(none)">>
                                            ELSE AvailableKeys(object))]]
        ELSE [ok |-> TRUE,
              value |-> [mainScript |-> mainScript, mainStyle |-> mainStyle]]

\* ------------------------------------------------------------------------
\* The middleware stack: static files, API routes, SSR handler, 404 handler
\* ------------------------------------------------------------------------

\* Inbound GETs served in one behaviour.
MaxGets == 2

\* Paths, as tokens: "/", a run of other characters, or an extension.
GetPaths ==
    {<<"/">>, <<"/", "about">>, <<"/", "api", "ary">>, <<"/", "health">>,
     <<"/", "api", "/", "hello">>, <<"/", "api", "/", "nope">>,
     <<"/", "assets", "/", "app", ".js">>, <<"/", "missing", ".png">>}

\* The files under staticDir that express.static serves.
StaticFiles == {<<"/", "assets", "/", "app", ".js">>, <<"/", "manifest", ".json">>}

\* The GET routes that registerRoutes registers.
ApiRoutes ==
    {<<"/", "api", "/", "bootstrap">>, <<"/", "api", "/", "todos">>,
     <<"/", "api", "/", "hello">>, <<"/", "api", "/", "injected">>,
     <<"/", "health">>}

\* req.path.startsWith("/api")
StartsWithApi(path) == IsAt(path, <<"/", "api">>, 1)

Extensions == {".js", ".png", ".json", ".css", ".html"}

\* path.extname(req.path): the extension of the last segment, "" if none.
extname(path) ==
    IF Len(path) >= 2 /\ path[Len(path)] \in Extensions /\ path[Len(path) - 1] # "/"
    THEN path[Len(path)] ELSE ""

\* index.html under staticDir, the template of the renderer.
ServerTemplate ==
    <<"<!doctype html>", "<html>", "<head>", "<title>Restart</title>", "</head>",
      "<body>", "<div id=\"root\">", "</div>", AppScript, "</body>", "</html>">>

NoSnapshot == [cached |-> JsNull, timestamp |-> 0]

\* An inbound GET: the handler that took it, and what it answered.
NewGet(path, handler) ==
    [path |-> path, handler |-> handler, pc |-> "done", status |-> 0,
     body |-> "none", html |-> <<>>, headers |-> NewResponse.headers,
     error |-> NoError, at |-> -1, readFile |-> FALSE, saw |-> NullValue,
     had |-> NoSnapshot, before |-> NoSnapshot, after |-> NoSnapshot,
     returned |-> NullValue, assets |-> NullValue, ctx |-> NullValue,
     bootstrap |-> NullValue, req |-> NullValue, call |-> 0]

\* Mutant of SsrResponds: a page of the error variant is sent with the
\* status of its payload and is kept out of every cache.
SsrRespondsByVariant(get, req, res) ==
    IF res.ok
    THEN LET opts  == [ctx |-> get.ctx, bootstrap |-> get.bootstrap,
                       assetScriptSrc |-> res.value.mainScript]
             store == applyBootstrapToStore(get.bootstrap, makeStore(Undefined))
             failed == get.bootstrap.page.kind = "error"
             cached == IF failed
                       THEN setHeader(NewResponse, "Cache-Control", "no-store")
                       ELSE applyCachePolicy(req, NewResponse, "html")
             typed  == setHeader(cached, "Content-Type", "text/html; charset=utf-8")
             varied == setHeader(typed, "Vary", "Accept-Encoding")
         IN  [get EXCEPT !.pc = "done",
                         !.status = IF failed THEN get.bootstrap.page.status ELSE 200,
                         !.body = "html",
                         !.html = Rendered(opts, ServerTemplate, store),
                         !.headers = varied.headers,
                         !.assets = res.value]
    ELSE [get EXCEPT !.pc = "done", !.status = 500, !.error = res.error]

\* The rest of the SSR handler once resolveAssets has settled with res:
\* applyCachePolicy, renderHtml and res.status(200).send(html), or the catch
\* block, next(error) and the 500 of the error handler.
SsrResponds(get, req, res) ==
    IF res.ok
    THEN LET opts  == [ctx |-> get.ctx, bootstrap |-> get.bootstrap,
                       assetScriptSrc |-> res.value.mainScript]
             store == applyBootstrapToStore(get.bootstrap, makeStore(Undefined))
             cached == applyCachePolicy(req, NewResponse, "html")
             typed  == setHeader(cached, "Content-Type", "text/html; charset=utf-8")
             varied == setHeader(typed, "Vary", "Accept-Encoding")
         IN  [get EXCEPT !.pc = "done", !.status = 200, !.body = "html",
                         !.html = Rendered(opts, ServerTemplate, store),
                         !.headers = varied.headers,
                         !.assets = res.value]
    ELSE [get EXCEPT !.pc = "done", !.status = 500, !.error = res.error]

\* The anonymous request for path.
GetRequest(path) ==
    [cookie |-> <<>>, authorization |-> <<>>, query |-> NoQuery, path |-> path]

Snapshot == [cached |-> manifest.cachedManifest, timestamp |-> manifest.cacheTimestamp]

\* resolveAssets(staticDir) called at t: readManifest answers from
\* cachedManifest, and the handler goes on to the response, or starts
\* fs.readFile.
ResolveAssets(get, t) ==
    LET g1 == [get EXCEPT !.at = t, !.had = Snapshot]
    IN  IF CacheValid(manifest.cachedManifest, manifest.cacheTimestamp, manifest.env, t)
        THEN SsrResponds([g1 EXCEPT !.before = Snapshot, !.after = Snapshot,
                                    !.returned = manifest.cachedManifest],
                         g1.req, PickAssets(manifest.cachedManifest))
        ELSE [g1 EXCEPT !.pc = "reading", !.readFile = TRUE]

\* GET path: express.static, the API routes, the SSR handler up to the read
\* of the manifest file, or the 404 handler.
Get(path) ==
    /\ Len(gets) < MaxGets
    /\ IF path \in StaticFiles
       THEN /\ gets' = Append(gets, [NewGet(path, "static") EXCEPT
                                       !.status = 200, !.body = "file"])
            /\ UNCHANGED <<bootVars, manifest>>
       ELSE IF path \in ApiRoutes
       THEN /\ gets' = Append(gets, [NewGet(path, "api") EXCEPT
                                       !.status = 200, !.body = "json"])
            /\ UNCHANGED <<bootVars, manifest>>
       ELSE IF StartsWithApi(path) \/ extname(path) # ""
       THEN /\ gets' = Append(gets, [NewGet(path, "404") EXCEPT
                                       !.status = 404, !.body = "file"])
            /\ UNCHANGED <<bootVars, manifest>>
       ELSE LET r   == Len(reqs) + 1
                req == GetRequest(path)
                ctx == buildRequestContext(req, Query(path), r)
                w   == Lookup(World(NewCall(ctx, now, InFlight)), r, now)
                get == [NewGet(path, "ssr") EXCEPT
                           !.ctx = ctx, !.bootstrap = w.rec.payload,
                           !.req = req, !.call = r]
            IN  /\ publicBootstrapCache' = w.pub
                /\ privateBootstrapCache' = w.priv
                /\ writes' = w.writes
                /\ reqs' = Append(reqs, w.rec)
                /\ UNCHANGED manifest
                /\ gets' = Append(gets, ResolveAssets(get, now))
    /\ UNCHANGED <<now, httpVars, cacheVars, policyVars, renderVars, clientVars,
                   identity, listing, processVars>>

\* fs.readFile settles for the GET g: the manifest is parsed, stored and
\* resolved, or the error is thrown.
ReadFileSettles(g) ==
    /\ g \in 1..Len(gets)
    /\ gets[g].pc = "reading"
    /\ LET content == manifest.file
           get     == [gets[g] EXCEPT !.saw = content, !.before = Snapshot]
           req     == get.req
       IN  IF content.kind = "json"
           THEN LET object == ManifestObject(content.members)
                    stored == [cached |-> object, timestamp |-> get.at]
                IN  /\ manifest' = [manifest EXCEPT !.cachedManifest = object,
                                                    !.cacheTimestamp = get.at]
                    /\ gets' = [gets EXCEPT ![g] =
                                   SsrResponds([get EXCEPT !.after = stored,
                                                           !.returned = object], req,
                                               PickAssets(object))]
           ELSE /\ UNCHANGED manifest
                /\ gets' = [gets EXCEPT ![g] =
                               SsrResponds([get EXCEPT !.after = Snapshot], req,
                                           [ok |-> FALSE, error |-> ManifestError(content)])]
    /\ UNCHANGED <<now, bootVars, httpVars, cacheVars, policyVars, renderVars,
                   clientVars, identity, listing, processVars>>

\* The documents requested of the SSR handler: anonymous, with a session
\* cookie and with credentials only, on the home and the listing route.
SsrRequests ==
    {[cookie |-> c[1], authorization |-> c[2], query |-> NoQuery, path |-> route] :
        c \in {<<<<>>, <<>>>>, <<<<"session=", "a">>, <<>>>>, <<<<>>, <<"Bearer", " ", "t">>>>},
        route \in {<<"/">>, TodosRoute}}

\* What the upstream calls of these requests meet: an answer at once, an
\* answer on the retry, or no answer.
SsrUserOutcomes ==
    LET ok == OkOutcome(JsonObject([id |-> 1, name |-> <<"Ada">>, username |-> <<"u">>]))
    IN  {<<ok, ok>>, <<TimeoutOutcome, ok>>, <<NetworkOutcome, NetworkOutcome>>}

SsrTodosOutcomes ==
    LET ok == OkOutcome(JsonArray(<<ExternalTodo(1, FALSE)>>))
    IN  {<<ok, ok>>, <<TimeoutOutcome, ok>>,
         <<StatusOutcome(503, <<"upstream stack trace">>),
           StatusOutcome(503, <<"upstream stack trace">>)>>}

\* createSsrHandler for a request that express.static and the routes passed
\* on: buildRequestContext, then getBootstrapPayload up to its first
\* upstream call; a payload that is ready (a hit, the anonymous home page)
\* lets the handler go on to resolveAssets.
SsrGet(req) ==
    /\ Len(gets) < MaxGets
    /\ Len(reqs) < MaxRequests
    /\ ~StartsWithApi(req.path) /\ extname(req.path) = ""
    /\ LET r   == Len(reqs) + 1
           ctx == buildRequestContext(req, Query(req.path), r)
           w   == Lookup(World(NewCall(ctx, now, InFlight)), r, now)
           get == [NewGet(req.path, "ssr") EXCEPT !.ctx = ctx, !.req = req, !.call = r]
       IN  /\ publicBootstrapCache' = w.pub
           /\ privateBootstrapCache' = w.priv
           /\ writes' = w.writes
           /\ reqs' = Append(reqs, w.rec)
           /\ gets' = Append(gets,
                  IF w.rec.pc = "done"
                  THEN ResolveAssets([get EXCEPT !.bootstrap = w.rec.payload], now)
                  ELSE [get EXCEPT !.pc = "bootstrap"])
    /\ UNCHANGED <<now, httpVars, cacheVars, policyVars, renderVars, clientVars,
                   identity, listing, manifest, processVars>>

\* await getBootstrapPayload(ctx) returns to the handler of the GET g, which
\* goes on to resolveAssets.
BootstrapReturns(g) ==
    /\ g \in 1..Len(gets)
    /\ gets[g].pc = "bootstrap"
    /\ reqs[gets[g].call].pc = "done"
    /\ gets' = [gets EXCEPT ![g] =
                   IF reqs[gets[g].call].settled = "resolved"
                   THEN ResolveAssets([gets[g] EXCEPT !.bootstrap = reqs[gets[g].call].payload], now)
                   ELSE [gets[g] EXCEPT !.pc = "done", !.status = 500,
                                        !.error = reqs[gets[g].call].error]]
    /\ UNCHANGED <<now, bootVars, httpVars, cacheVars, policyVars, renderVars,
                   clientVars, identity, listing, manifest, processVars>>

\* The build writes, removes or breaks the manifest file.
ManifestRewritten(content) ==
    /\ content # manifest.file
    /\ manifest' = [manifest EXCEPT !.file = content]
    /\ UNCHANGED <<now, bootVars, httpVars, cacheVars, policyVars, renderVars,
                   clientVars, identity, listing, gets, processVars>>

ServerTick ==
    /\ now + ManifestTickMs <= MaxManifestTicks * ManifestTickMs
    /\ now' = now + ManifestTickMs
    /\ UNCHANGED <<bootVars, httpVars, cacheVars, webVars>>

ManifestStart(env, content) ==
    [env |-> env, file |-> content, cachedManifest |-> JsNull, cacheTimestamp |-> 0]

\* ------------------------------------------------------------------------
\* env.ts: the PORT variable, and the start of the process in index.ts
\* ------------------------------------------------------------------------

DefaultPort == 3000

MinPort == 1

MaxPort == 65535

\* The significand of a double: Number(raw) is the double nearest to the
\* value the text denotes.
SignificandBits == 53

\* process.env.PORT: undefined, or a text of one-character tokens.
Unset == [set |-> FALSE, text |-> <<>>]

EnvText(text) == [set |-> TRUE, text |-> text]

DecimalDigits == <<"0", "1", "2", "3", "4", "5", "6", "7", "8", "9">>

HexLetters == <<"a", "b", "c", "d", "e", "f">>

HexCapitals == <<"A", "B", "C", "D", "E", "F">>

IsDigit(c) == \E i \in 1..Len(DecimalDigits) : DecimalDigits[i] = c

DigitValue(c) == (CHOOSE i \in 1..Len(DecimalDigits) : DecimalDigits[i] = c) - 1

IsHexDigit(c) ==
    \/ IsDigit(c)
    \/ \E i \in 1..Len(HexLetters) : HexLetters[i] = c \/ HexCapitals[i] = c

HexDigitValue(c) ==
    IF IsDigit(c) THEN DigitValue(c)
    ELSE 9 + (CHOOSE i \in 1..Len(HexLetters) : HexLetters[i] = c \/ HexCapitals[i] = c)

AllDigits(s) == \A i \in 1..Len(s) : IsDigit(s[i])

\* The first position of s holding a token of the set, 0 when there is none.
FirstOf(s, set) ==
    IF \E i \in 1..Len(s) : s[i] \in set
    THEN CHOOSE i \in 1..Len(s) : s[i] \in set /\ \A j \in 1..(i - 1) : s[j] \notin set
    ELSE 0

\* getPort tells magnitudes apart up to MaxPort: every greater one is kept
\* as MaxPort + 1.
Saturate(n) == IF n > MaxPort THEN MaxPort + 1 ELSE n

\* The value of the digits in the radix, left to right.
RECURSIVE RadixValue(_, _, _)
RadixValue(values, radix, acc) ==
    IF values = <<>> THEN acc
    ELSE RadixValue(Tail(values), radix, Saturate(acc * radix + Head(values)))

AllZero(values) == \A i \in 1..Len(values) : values[i] = 0

\* Twice a decimal fraction 0.d1d2..., without the carry out of d1 (the
\* carry is 1 exactly when d1 >= 5).
Twice(values) ==
    [i \in 1..Len(values) |->
        (2 * values[i] + (IF i < Len(values) /\ values[i + 1] >= 5 THEN 1 ELSE 0)) % 10]

\* 0.d1d2... * 2^j <= 1
RECURSIVE FitsHalfUlp(_, _)
FitsHalfUlp(values, j) ==
    IF AllZero(values) \/ j = 0 THEN TRUE
    ELSE IF values[1] >= 5 THEN j = 1 /\ AllZero(Twice(values))
    ELSE FitsHalfUlp(Twice(values), j - 1)

\* 1 - 0.d1d2..., for a fraction that is not zero.
Complement(values) ==
    LET last == CHOOSE i \in 1..Len(values) :
                    values[i] # 0 /\ \A j \in (i + 1)..Len(values) : values[j] = 0
    IN  [i \in 1..Len(values) |->
            IF i < last THEN 9 - values[i]
            ELSE IF i = last THEN 10 - values[i]
            ELSE 0]

\* The exponent of the binade of n >= 1.
RECURSIVE Log2(_)
Log2(n) == IF n < 2 THEN 0 ELSE 1 + Log2(n \div 2)

\* The doubles next to a value between n and n + 1 are half a unit in the
\* last place apart from it at most; ties go to the even significand, which
\* is the integer's.
HalfUlpBits(n) == IF n = 0 THEN SignificandBits + 1 ELSE SignificandBits - Log2(n)

NaN == [kind |-> "NaN", negative |-> FALSE, integer |-> FALSE, value |-> 0]

Infinite(negative) ==
    [kind |-> "Infinity", negative |-> negative, integer |-> FALSE, value |-> MaxPort + 1]

Finite(negative, integer, value) ==
    [kind |-> "finite", negative |-> negative, integer |-> integer, value |-> value]

\* The double nearest to whole + 0.d1d2...: the integer below or above when
\* the fraction is within half a unit in the last place of it, else a
\* fraction (value is its floor). Above MaxPort the fraction is not looked
\* at.
RoundDouble(negative, whole, fraction) ==
    IF AllZero(fraction) THEN Finite(negative, TRUE, whole)
    ELSE IF whole > MaxPort THEN Finite(negative, TRUE, whole)
    ELSE IF whole >= 1 /\ FitsHalfUlp(fraction, HalfUlpBits(whole))
         THEN Finite(negative, TRUE, whole)
    ELSE IF FitsHalfUlp(Complement(fraction), HalfUlpBits(whole))
         THEN Finite(negative, TRUE, Saturate(whole + 1))
    ELSE Finite(negative, FALSE, whole)

InfinityText == <<"I", "n", "f", "i", "n", "i", "t", "y">>

\* The values of a text of decimal digits.
DigitValues(s) == [i \in 1..Len(s) |-> DigitValue(s[i])]

\* The number of zeros the digits start with.
LeadingZeros(all) ==
    IF AllZero(all) THEN Len(all)
    ELSE (CHOOSE i \in 1..Len(all) : all[i] # 0 /\ \A j \in 1..(i - 1) : all[j] = 0) - 1

\* The digits 0.d1d2... times ten to the point, split into the whole part
\* (kept up to MaxPort + 1: ten digits are enough to pass MaxPort) and the
\* fraction.
SplitAt(digits, point) ==
    [ok       |-> TRUE,
     whole    |-> IF digits = <<>> \/ point <= 0 THEN 0
                  ELSE RadixValue([i \in 1..(IF point > Len(DecimalDigits)
                                             THEN Len(DecimalDigits) ELSE point) |->
                           IF i <= Len(digits) THEN digits[i] ELSE 0], 10, 0),
     fraction |-> IF digits = <<>> \/ point >= Len(digits) THEN <<>>
                  ELSE IF point <= 0
                       THEN [i \in 1..(Len(digits) - point) |->
                               IF i <= 0 - point THEN 0 ELSE digits[i + point]]
                  ELSE SubSeq(digits, point + 1, Len(digits))]

\* The digits of the mantissa, intLen of them before the point, shifted by
\* the exponent; the leading zeros are dropped.
Shift(all, intLen, exp, zeros) ==
    SplitAt(SubSeq(all, zeros + 1, Len(all)), intLen + exp - zeros)

\* The mantissa with the digits before and after its point, and the
\* exponent with its sign and digits.
Scale(intDigits, fraDigits, present, negative, expDigits) ==
    IF ~(/\ present => (expDigits # <<>> /\ AllDigits(expDigits))
         /\ AllDigits(intDigits) /\ AllDigits(fraDigits)
         /\ (intDigits # <<>> \/ fraDigits # <<>>))
    THEN [ok |-> FALSE, whole |-> 0, fraction |-> <<>>]
    ELSE Shift(DigitValues(intDigits \o fraDigits), Len(intDigits),
               IF negative THEN 0 - RadixValue(DigitValues(expDigits), 10, 0)
                           ELSE RadixValue(DigitValues(expDigits), 10, 0),
               LeadingZeros(DigitValues(intDigits \o fraDigits)))

SplitExponent(mant, dot, present, expPart, expSigned) ==
    Scale(IF dot = 0 THEN mant ELSE SubSeq(mant, 1, dot - 1),
          IF dot = 0 THEN <<>> ELSE SubSeq(mant, dot + 1, Len(mant)),
          present,
          expSigned /\ expPart[1] = "-",
          IF expSigned THEN Tail(expPart) ELSE expPart)

SplitMantissa(mant, present, expPart) ==
    SplitExponent(mant, FirstOf(mant, {"."}), present, expPart,
                  expPart # <<>> /\ expPart[1] \in {"+", "-"})

SplitLiteral(body, ePos) ==
    SplitMantissa(IF ePos = 0 THEN body ELSE SubSeq(body, 1, ePos - 1),
                  ePos # 0,
                  IF ePos = 0 THEN <<>> ELSE SubSeq(body, ePos + 1, Len(body)))

\* StrUnsignedDecimalLiteral: digits, at most one point, an optional
\* exponent; the digits are shifted by the exponent and split at the point
\* into the whole part and the fraction.
DecimalParts(body) == SplitLiteral(body, FirstOf(body, {"e", "E"}))

RoundParts(negative, parts) ==
    IF ~parts.ok THEN NaN
    ELSE RoundDouble(negative, parts.whole, parts.fraction)

DecimalLiteral(negative, body) == RoundParts(negative, DecimalParts(body))

\* 0x, 0o and 0b literals take no sign.
RadixLiteral(s) ==
    LET radix  == IF s[2] \in {"x", "X"} THEN 16 ELSE IF s[2] \in {"o", "O"} THEN 8 ELSE 2
        body   == SubSeq(s, 3, Len(s))
        ok     == /\ body # <<>>
                  /\ \A i \in 1..Len(body) :
                        IsHexDigit(body[i]) /\ HexDigitValue(body[i]) < radix
    IN  IF ~ok THEN NaN
        ELSE Finite(FALSE, TRUE,
                    RadixValue([i \in 1..Len(body) |-> HexDigitValue(body[i])], radix, 0))

\* Number(text), StringToNumber: white space is trimmed, the empty text is
\* 0, anything that is no StringNumericLiteral is NaN.
Number(text) ==
    LET s == Trim(text)
    IN  IF s = <<>> THEN Finite(FALSE, TRUE, 0)
        ELSE IF Len(s) >= 2 /\ s[1] = "0" /\ s[2] \in {"x", "X", "o", "O", "b", "B"}
             THEN RadixLiteral(s)
        ELSE LET signed   == s[1] \in {"+", "-"}
                 negative == s[1] = "-"
                 body     == IF signed THEN Tail(s) ELSE s
             IN  IF body = InfinityText THEN Infinite(negative)
                 ELSE DecimalLiteral(negative, body)

\* Number.isInteger(port)
IsInteger(number) == number.kind = "finite" /\ number.integer

\* port < 1, port > 65535
LessThan(number, n) ==
    /\ number.kind # "NaN"
    /\ IF number.negative THEN number.value > 0 \/ n > 0
       ELSE number.value < n

GreaterThan(number, n) ==
    /\ number.kind # "NaN"
    /\ ~number.negative
    /\ number.value > n

InvalidPort(raw) ==
    [name    |-> "Error",
     message |-> <<"Invalid PORT value ", "\"">> \o raw
                 \o <<"\"", ". Expected an integer between 1 and 65535.">>]

getPortUnbounded(env, defaultPort) ==
    IF ~env.set \/ Trim(env.text) = <<>>
    THEN [threw |-> FALSE, value |-> defaultPort, error |-> NoError]
    ELSE LET port == Number(env.text)
         IN  IF ~IsInteger(port) \/ LessThan(port, MinPort)
             THEN [threw |-> TRUE, value |-> 0, error |-> InvalidPort(env.text)]
             ELSE [threw |-> FALSE, value |-> port.value, error |-> NoError]

getPort(env, defaultPort) ==
    IF ~env.set \/ Trim(env.text) = <<>>
    THEN [threw |-> FALSE, value |-> defaultPort, error |-> NoError]
    ELSE LET port == Number(env.text)
         IN  IF ~IsInteger(port) \/ LessThan(port, MinPort) \/ GreaterThan(port, MaxPort)
             THEN [threw |-> TRUE, value |-> 0, error |-> InvalidPort(env.text)]
             ELSE [threw |-> FALSE, value |-> port.value, error |-> NoError]

\* The process before index.ts has run.
NotStarted(env) == [pc |-> "start", PORT |-> env, port |-> 0, error |-> NoError]

\* index.ts: const port = getPort() at the top of the module, app.listen(port)
\* at its end; an error thrown in between ends the process.
StartServer ==
    /\ listener.pc = "start"
    /\ LET got == getPort(listener.PORT, DefaultPort)
       IN  listener' = IF got.threw
                       THEN [listener EXCEPT !.pc = "exited", !.error = got.error]
                       ELSE [listener EXCEPT !.pc = "listening", !.port = got.value]
    /\ UNCHANGED <<now, bootVars, httpVars, cacheVars, policyVars, renderVars,
                   clientVars, edgeVars>>

\* The values of PORT tried: every text of at most MaxPortLen tokens of
\* PortAlphabet, and the texts of PortSamples.
MaxPortLen == 2

PortAlphabet == {"0", "1", "9", " ", "-", "+", ".", "e", "x", "a"}

RECURSIVE TextsUpTo(_, _)
TextsUpTo(alphabet, n) ==
    IF n = 0 THEN {<<>>}
    ELSE LET shorter == TextsUpTo(alphabet, n - 1)
         IN  shorter \cup {Append(s, c) : s \in shorter, c \in alphabet}

PortSamples ==
    {<<"3", "0", "0", "0">>,
     <<"8", "0", "8", "0">>,
     <<"6", "5", "5", "3", "5">>,
     <<"6", "5", "5", "3", "6">>,
     <<"1", "0", "0", "0", "0", "0", "0">>,
     <<"0", "0", "8", "0">>,
     <<" ", "8", "0", " ">>,
     <<" ", " ", " ">>,
     <<"-", "8", "0">>,
     <<"+", "8", "0">>,
     <<"8", "0", ".", "5">>,
     <<"8", "0", ".", "0">>,
     <<"8", "0", ".">>,
     <<"8", "0", "a">>,
     <<"8", " ", "0">>,
     <<"8", "e", "1">>,
     <<"7", "e", "4">>,
     <<"5", "e", "-", "1">>,
     <<"8", "0", "0", "e", "-", "1">>,
     <<"8", "0", "5", "e", "-", "1">>,
     <<"0", "x", "5", "0">>,
     <<"0", "x", "F", "F", "F", "F">>,
     <<"0", "x", "1", "0", "0", "0", "0">>,
     <<"0", "b", "1", "0", "1">>,
     <<"0", "o", "1", "7">>,
     <<"0", "x">>,
     <<"-", "0", "x", "5", "0">>,
     <<"I", "n", "f", "i", "n", "i", "t", "y">>,
     <<"-", "0">>,
     <<"0", ".", "9", "9">>,
     <<"1", ".", "0", "0", "0", "0", "0", "0", "0", "0", "0", "0", "0", "0", "0", "0", "0", "0", "0", "1">>,
     <<"1", ".", "0", "0", "0", "0", "0", "0", "0", "0", "0", "0", "0", "0", "0", "0", "0", "2">>,
     <<"8", "0", ".", "0", "0", "0", "0", "0", "0", "0", "0", "0", "0", "0", "0", "0", "0", "5">>,
     <<"8", "0", ".", "0", "0", "0", "0", "0", "0", "0", "0", "0", "0", "0", "0", "0", "0", "9">>,
     <<"0", ".", "9", "9", "9", "9", "9", "9", "9", "9", "9", "9", "9", "9", "9", "9", "9", "9", "9", "9">>,
     <<"6", "5", "5", "3", "5", ".", "9", "9", "9", "9", "9", "9", "9", "9", "9", "9", "9", "9", "9">>,
     <<"6", "5", "5", "3", "5", ".", "0", "0", "0", "0", "0", "0", "0", "0", "0", "0", "0", "0", "1">>}

PortTexts == TextsUpTo(PortAlphabet, MaxPortLen) \cup PortSamples

PortSettings == {Unset} \cup {EnvText(text) : text \in PortTexts}

\* ------------------------------------------------------------------------
\* getBootstrapPayload over getJson, one await at a time
\* ------------------------------------------------------------------------

\* The upstream a call waits for: getUserName in generateGreeting, getTodos
\* in buildTodosPayload.
UpstreamUrl(rec) == IF rec.pc = "user" THEN UserUrl ELSE TodosUrl

\* The bodies the upstream at url serves with a 2xx answer.
UpstreamJsons(url) ==
    IF url = UserUrl
    THEN {JsonObject([id |-> 1, name |-> <<"Ada">>, username |-> <<"u">>]), JsonNull}
    ELSE {JsonArray(<<ExternalTodo(1, FALSE)>>), JsonObject([error |-> <<"x">>])}

\* Call r reaches http.getJson(url, {timeoutMs, retries}) of API_CONFIG on
\* the client it created with its own requestId.
UpstreamCall(r) ==
    /\ r \in 1..Len(reqs)
    /\ reqs[r].pc \in {"user", "todos"}
    /\ http.pc = "idle"
    /\ LET bound == createHttpClient([requestId |-> reqs[r].ctx.requestId])
           url   == UpstreamUrl(reqs[r])
       IN  /\ http' = [http EXCEPT !.pc = "fetch", !.maxRetries = API_CONFIG.retries,
                                   !.ctx = reqs[r].ctx, !.client = bound,
                                   !.url = url]
           /\ StartAttempt(0, fuses, bound, url)
    /\ UNCHANGED <<aborted, ends, fired, console>>
    /\ UNCHANGED <<now, bootVars, cacheVars, webVars>>

\* What the await of getJson yields to its caller.
Settlement ==
    IF http.pc = "returned"
    THEN [ok |-> TRUE, value |-> http.result, attempts |-> http.attempt + 1]
    ELSE [ok |-> FALSE, error |-> http.result, attempts |-> http.attempt + 1]

\* getUserName has settled with res: generateGreeting catches a failure, the
\* route is dispatched.
IdentitySettled(r, res) ==
    LET w == [World(reqs[r]) EXCEPT !.rec.userFailed = ~res.ok,
                                    !.rec.userCalls = @ + 1]
    IN  Dispatch(w, r, generateGreeting(res), now)

\* getTodos has settled with res: the payload is built and stored, or the
\* catch block of getBootstrapPayload runs.
ListingSettled(r, res) ==
    LET w     == [World(reqs[r]) EXCEPT !.rec.todosCalls = @ + 1]
        built == IF res.ok
                 THEN buildTodosPayload(w.rec.ctx, w.rec.greeting, res.value)
                 ELSE res
    IN  IF built.ok THEN Succeed(w, r, built.value, now)
                    ELSE Fail(w, built.error)

\* getJson has returned or thrown: call r goes on after its await.
UpstreamSettles(r) ==
    /\ HttpTerminated
    /\ r \in 1..Len(reqs)
    /\ reqs[r].pc \in {"user", "todos"}
    /\ reqs[r].ctx = http.ctx
    /\ LET after == IF reqs[r].pc = "user"
                    THEN IdentitySettled(r, UserName(Settlement))
                    ELSE ListingSettled(r, Settlement)
       IN  /\ publicBootstrapCache' = after.pub
           /\ privateBootstrapCache' = after.priv
           /\ writes' = after.writes
           /\ reqs' = [reqs EXCEPT ![r] = after.rec]
    /\ http' = HttpIdle
    /\ aborted' = {}
    /\ UNCHANGED <<fuses, sent, ends, fired, console>>
    /\ UNCHANGED <<now, cacheVars, webVars>>

\* ------------------------------------------------------------------------
\* Specifications
\* ------------------------------------------------------------------------

InitCoreWith(maxSize) ==
    /\ now = 0
    /\ publicBootstrapCache = NewTTLCache(BootstrapTtlMs, DefaultMaxSize)
    /\ privateBootstrapCache = NewTTLCache(BootstrapTtlMs, DefaultMaxSize)
    /\ reqs = <<>>
    /\ writes = <<>>
    /\ http = HttpIdle
    /\ fuses = {}
    /\ aborted = {}
    /\ sent = <<>>
    /\ ends = <<>>
    /\ fired = <<>>
    /\ console = <<>>
    /\ ttlCache = NewTTLCache(BootstrapTtlMs, maxSize)
    /\ live = [k \in CacheKeys |-> NotLive]
    /\ lastGet = NoGet

InitCore == InitCoreWith(CacheMaxSize)

\* No call of renderHtml yet, and a client on a page that no server render
\* filled.
InitRest ==
    /\ renders = <<>>
    /\ window = [bootstrap |-> Undefined, preloaded |-> Undefined,
                 markup |-> FALSE, path |-> HomeRoute]
    /\ client = ClientLoaded
    /\ served = Undefined

InitServer ==
    /\ listener = NotStarted(Unset)
    /\ manifest = ManifestStart("production", FileAbsent)
    /\ gets = <<>>

InitEdge ==
    /\ identity = IdentityIdle
    /\ listing = ListingIdle
    /\ InitServer

Init ==
    /\ InitCore
    /\ policy = PolicyIdle
    /\ InitRest
    /\ InitEdge

Next ==
    \/ \E req \in HttpRequests : ApiBootstrap(req)
    \/ \E r \in 1..Len(reqs) : \E o \in OutcomeSeqs(UserOutcomes) : UserSettles(r, o)
    \/ \E r \in 1..Len(reqs) : \E o \in OutcomeSeqs(TodosOutcomes) : TodosSettles(r, o)
    \/ Tick
    \/ Cleanup

Spec == Init /\ [][Next]_vars

NextHttp ==
    \/ \E r \in 1..MaxRequests, url \in {UserUrl, TodosUrl} :
          \E retries \in 0..MaxRetries : HttpCall(r, url, retries)
    \/ \E a \in fuses : FuseFires(a)
    \/ \E status \in HttpStatuses : FetchResponds(status)
    \/ FetchFails
    \/ FetchAborted
    \/ \E body \in {<<"no such user">>} : TextSettles(body)
    \/ \E json \in UserJsons : JsonParses(json)
    \/ JsonRejects
    \/ JsonAborted
    \/ SleepEnds

SpecHttp == Init /\ [][NextHttp]_vars

NextCache ==
    \/ \E key \in CacheKeys : \E value \in CacheValues : CacheSet(key, value)
    \/ \E key \in CacheKeys : CacheGet(key)
    \/ \E key \in CacheKeys : CacheDelete(key)
    \/ CacheClear
    \/ \E matching \in SUBSET CacheKeys : CacheInvalidate(matching)
    \/ CacheCleanup
    \/ CacheTick

SpecCache == Init /\ [][NextCache]_vars

InitPolicy ==
    /\ InitCore
    /\ \E req \in AnonymousRequests \cup AuthenticatedRequests :
          \E mode \in CacheModes : policy = PolicyCall(req, mode)
    /\ InitRest
    /\ InitEdge

NextPolicy == ApplyCachePolicy

SpecPolicy == InitPolicy /\ [][NextPolicy]_vars

\* The renderer alone: calls of renderHtml and their queries.
NextRender ==
    \/ \E opts \in RenderOpts, template \in Templates : RenderHtml(opts, template)
    \/ \E i \in 1..MaxRenders, outcome \in QueryOutcomes : QuerySettles(i, outcome)

SpecRender == Init /\ [][NextRender]_vars

\* The client alone, on any page it can be loaded on.
InitClient ==
    /\ InitCore
    /\ policy = PolicyIdle
    /\ renders = <<>>
    /\ client = ClientLoaded
    /\ \E page \in Pages : window = page.window /\ served = page.served
    /\ InitEdge

NextClient ==
    \/ Start
    \/ ReadTodos
    \/ \E outcome \in QueryOutcomes : ClientQuerySettles(outcome)
    \/ ReadBootstrapAgain
    \/ ReadPreloadedStateAgain

SpecClient == InitClient /\ [][NextClient]_vars

\* Two requests that differ at most in the header x-user-id.
InitIdentity ==
    /\ InitCore
    /\ policy = PolicyIdle
    /\ InitRest
    /\ \E req \in IdentityRequests, x \in UserIdHeaders, y \in UserIdHeaders :
          \E mode \in CacheModes :
              identity = IdentityCall(WithUserIdHeader(req, x),
                                      WithUserIdHeader(req, y), mode)
    /\ listing = ListingIdle
    /\ InitServer

NextIdentity == \E i \in 1..2 : HandleRequest(i)

SpecIdentity == InitIdentity /\ [][NextIdentity]_vars

\* One upstream listing served through GET /api/todos, through
\* getBootstrapPayload (fresh, then from the cache) and through the document.
InitListing ==
    /\ InitCore
    /\ policy = PolicyIdle
    /\ InitRest
    /\ identity = IdentityIdle
    /\ \E upstream \in UpstreamListings, template \in Templates :
          listing = ListingServed(upstream, template)
    /\ InitServer

NextListing ==
    \/ ApiBootstrap(ListingRequest)
    \/ \E r \in 1..Len(reqs) : \E o \in ListingOutcomes : TodosSettles(r, o)
    \/ \E o \in ListingOutcomes : ApiTodos(o)
    \/ \E r \in 1..Len(reqs) : SsrEmbeds(r)

SpecListing == InitListing /\ [][NextListing]_vars

\* The server: GETs through the middleware stack, the manifest file and the
\* clock.
InitServing ==
    /\ InitCore
    /\ policy = PolicyIdle
    /\ InitRest
    /\ identity = IdentityIdle
    /\ listing = ListingIdle
    /\ gets = <<>>
    /\ listener = NotStarted(Unset)
    /\ \E env \in {"production", "development"}, content \in ManifestFiles :
          manifest = ManifestStart(env, content)

NextServer ==
    \/ \E path \in GetPaths : Get(path)
    \/ \E g \in 1..Len(gets) : ReadFileSettles(g)
    \/ \E content \in ManifestFiles : ManifestRewritten(content)
    \/ ServerTick

SpecServer == InitServing /\ [][NextServer]_vars

\* Documents through the SSR handler: the context, the payload (from the
\* cache, built at once or after the upstream calls), the assets, the cache
\* policy and the response.
InitSsr ==
    /\ InitCore
    /\ policy = PolicyIdle
    /\ InitRest
    /\ identity = IdentityIdle
    /\ listing = ListingIdle
    /\ gets = <<>>
    /\ listener = NotStarted(Unset)
    /\ \E content \in {FileAbsent,
                        FileObject(<<ManifestEntry("app.js", <<"/assets/app.1.js">>)>>)} :
          manifest = ManifestStart("production", content)

NextSsr ==
    \/ \E req \in SsrRequests : SsrGet(req)
    \/ \E r \in 1..Len(reqs) : \E o \in SsrUserOutcomes : UserSettles(r, o)
    \/ \E r \in 1..Len(reqs) : \E o \in SsrTodosOutcomes : TodosSettles(r, o)
    \/ \E g \in 1..Len(gets) : BootstrapReturns(g)
    \/ \E g \in 1..Len(gets) : ReadFileSettles(g)

SpecSsr == InitSsr /\ [][NextSsr]_vars

\* Calls of one user for one page, up to MaxCalls of them, any number in
\* flight at once, with the identity upstream answering or not.
MaxCalls == 3

SessionRequests ==
    {Request(<<"session=", "a">>, <<>>, NoQuery),
     Request(<<"session=", "a">>, <<>>, Query(<<"/", "about">>))}

NextSession ==
    \/ \E req \in SessionRequests : ApiBootstrapWithin(req, MaxCalls)
    \/ \E r \in 1..Len(reqs) : \E o \in SsrUserOutcomes : UserSettles(r, o)
    \/ Tick
    \/ Cleanup

SpecSession == Init /\ [][NextSession]_vars

\* A TTLCache with room for more than one entry, written, read and swept
\* while the clock advances.
InitExpiry ==
    /\ InitCoreWith(CacheMaxSize + 1)
    /\ policy = PolicyIdle
    /\ InitRest
    /\ InitEdge

NextExpiry ==
    \/ \E key \in CacheKeys : \E value \in CacheValues : CacheSet(key, value)
    \/ \E key \in CacheKeys : CacheGet(key)
    \/ CacheCleanup
    \/ CacheTick

SpecExpiry == InitExpiry /\ [][NextExpiry]_vars

\* The start of the process under every value of PORT.
InitStart ==
    /\ InitCore
    /\ policy = PolicyIdle
    /\ InitRest
    /\ identity = IdentityIdle
    /\ listing = ListingIdle
    /\ manifest = ManifestStart("production", FileAbsent)
    /\ gets = <<>>
    /\ \E env \in PortSettings : listener = NotStarted(env)

NextStart == StartServer

SpecStart == InitStart /\ [][NextStart]_vars

\* The inbound requests: a session and an anonymous visitor on the listing
\* route, a session on the home route.
AwaitedRequests ==
    {TracedRequest,
     Request(<<>>, <<>>, Query(TodosRoute)),
     Request(<<"session=", "a">>, <<>>, NoQuery)}

\* Calls made while getJson is followed await by await.
MaxAwaitedCalls == 1

\* The steps of a call in flight, of the upstream and of the timers.
Progress ==
    \/ \E r \in 1..MaxAwaitedCalls : UpstreamCall(r)
    \/ \E a \in fuses : FuseFires(a)
    \/ \E status \in {200, 503} : FetchResponds(status)
    \/ FetchFails
    \/ FetchAborted
    \/ \E body \in {<<"upstream stack trace">>} : TextSettles(body)
    \/ \E json \in UpstreamJsons(http.url) : JsonParses(json)
    \/ JsonRejects
    \/ JsonAborted
    \/ SleepEnds
    \/ \E r \in 1..MaxAwaitedCalls : UpstreamSettles(r)

NextAwaited ==
    \/ \E req \in AwaitedRequests : ApiBootstrapWithin(req, MaxAwaitedCalls)
    \/ Progress

\* No await is left pending for ever: a fetch that gets no answer is
\* aborted by its fuse, a timer set fires, a settled promise is resumed.
SpecAwaited == Init /\ [][NextAwaited]_vars /\ WF_vars(Progress)

\* ------------------------------------------------------------------------
\* Properties of the bootstrap assembler
\* ------------------------------------------------------------------------

Calls == 1..Len(reqs)

Done(r) == reqs[r].pc = "done"

Kind(r) == reqs[r].payload.page.kind

\* C1: a call served from the private cache gets a payload that a call with
\* the same userId stored, whatever the userId and route strings are.
C1_CacheKeyIsolation ==
    \A r \in Calls :
        reqs[r].hit =>
            reqs[reqs[r].servedBy].ctx.userId = reqs[r].ctx.userId

\* C2: no entry of either bootstrap cache holds an error payload, and a call
\* that returned an error payload it built made no cache.set.
C2_ErrorsNeverCached ==
    /\ \A i \in 1..Len(publicBootstrapCache.map) :
           publicBootstrapCache.map[i].value.page.kind # "error"
    /\ \A i \in 1..Len(privateBootstrapCache.map) :
           privateBootstrapCache.map[i].value.page.kind # "error"
    /\ \A r \in Calls :
           (Done(r) /\ Kind(r) = "error") =>
               /\ reqs[r].setAt = -1
               /\ \A i \in 1..Len(writes) : writes[i].by # r

C2_Witness ==
    \E r \in Calls :
        /\ Done(r) /\ Kind(r) = "error"
        /\ Len(privateBootstrapCache.map) > 0

\* C3: a call never rejects; once it has returned it has resolved with a
\* payload of kind home, todos (the listing) or error, whatever the upstream
\* did.
C3_NeverRejects ==
    \A r \in Calls :
        /\ reqs[r].settled # "rejected"
        /\ Done(r) =>
               /\ reqs[r].settled = "resolved"
               /\ reqs[r].payload # NullValue
               /\ Kind(r) \in {"home", "todos", "error"}

C3_Witness ==
    \E r1, r2 \in Calls :
        /\ Done(r1) /\ reqs[r1].error.name = "AbortError"
        /\ Done(r2) /\ reqs[r2].error.name = "SyntaxError"

\* Two anonymous calls for one route, the second arriving after the first
\* has returned, no other call being in flight meanwhile, the first a miss
\* that built a payload, the second inside the TTL of what the first stored.
InSequence(r1, r2) ==
    /\ r2 = r1 + 1
    /\ Done(r1) /\ Done(r2)
    /\ reqs[r1].concurrent = {} /\ reqs[r2].concurrent = {}
    /\ ~reqs[r1].ctx.isAuthenticated /\ ~reqs[r2].ctx.isAuthenticated
    /\ reqs[r1].ctx.route = reqs[r2].ctx.route
    /\ ~reqs[r1].hit /\ Kind(r1) # "error"
    /\ reqs[r2].arrivedAt < reqs[r1].setAt + BootstrapTtlMs

C8_ErrorKindMapping ==
    \A r \in Calls :
        (Done(r) /\ ~reqs[r].hit /\ Kind(r) = "error") =>
            LET page == reqs[r].payload.page
                err  == reqs[r].error
            IN  CASE err.name = "AbortError" ->
                         /\ page.code = BOOTSTRAP_ERROR_CODES.TIMEOUT
                         /\ page.status \in 500..599
                  [] err.name = "Error" ->
                         /\ page.code = BOOTSTRAP_ERROR_CODES.UPSTREAM
                         /\ StatusToken(page.status) = err.message[2]
                  [] OTHER ->
                         /\ page.code = BOOTSTRAP_ERROR_CODES.UNKNOWN
                         /\ page.status = 500

\* C9: when the identity call of an authenticated call fails, the call goes
\* on with the greeting "Welcome back": it returns the home variant off the
\* listing route, the listing variant when the listing call succeeds, and an
\* error variant only when the listing call itself failed.
C9_GreetingFallback ==
    \A r \in Calls :
        (Done(r) /\ ~reqs[r].hit /\ reqs[r].ctx.isAuthenticated
              /\ reqs[r].userFailed) =>
            /\ reqs[r].greeting = <<"Welcome back">>
            /\ Kind(r) = "error" =>
                   (reqs[r].ctx.route = TodosRoute /\ reqs[r].error # NoError)
            /\ Kind(r) # "error" =>
                   /\ reqs[r].payload.greeting = <<"Welcome back">>
                   /\ reqs[r].error = NoError
                   /\ Kind(r) = (IF reqs[r].ctx.route = TodosRoute
                                 THEN "todos" ELSE "home")

C9_Witness ==
    \E r1, r2 \in Calls :
        /\ Done(r1) /\ reqs[r1].userFailed /\ Kind(r1) = "todos"
        /\ Done(r2) /\ reqs[r2].userFailed /\ Kind(r2) = "home"

SafeGreetings == {<<"Welcome">>, <<"Welcome back">>}

SafeMessages ==
    {<<"An unexpected error occurred. Please try again.">>}
        \cup {BOOTSTRAP_ERROR_MESSAGES[k] : k \in DOMAIN BOOTSTRAP_ERROR_MESSAGES}

ErrorCalls == {r \in Calls : Done(r) /\ Kind(r) = "error"}

\* C10: every error payload carries a greeting and a message of the fixed
\* safe sets, and two error payloads for one route carry the same greeting
\* and message whatever the userId, the identity's name and the upstream's
\* error body were.
C10_SafeErrorText ==
    /\ \A r \in ErrorCalls :
           /\ reqs[r].payload.greeting \in SafeGreetings
           /\ reqs[r].payload.page.message \in SafeMessages
    /\ \A r1, r2 \in ErrorCalls :
           reqs[r1].ctx.route = reqs[r2].ctx.route =>
               /\ reqs[r1].payload.greeting = reqs[r2].payload.greeting
               /\ reqs[r1].payload.page.message = reqs[r2].payload.page.message

C10_Witness ==
    \E r1, r2 \in ErrorCalls :
        /\ reqs[r1].ctx.userId # reqs[r2].ctx.userId
        /\ reqs[r1].greeting = <<"Welcome back, ", "Ada">>
        /\ reqs[r1].error.name = "Error"
        /\ reqs[r2].error.name = "Error"
        /\ reqs[r1].error.message # reqs[r2].error.message

\* ------------------------------------------------------------------------
\* Properties of getJson
\* ------------------------------------------------------------------------

\* The console lines that trace an attempt (requestId, method, URL and
\* duration): the logRequest line and the FAILED line.
TraceLines == SelectSeq(console, LAMBDA l : l.line \in {"request", "failed"})

\* maxRetries + 1 requests when every attempt ended in a timeout or a network
\* failure, one request when the first attempt got a non-2xx answer.
RetryClassCounts ==
    /\ (\A i \in 1..Len(ends) : ends[i].kind \in {"timeout", "network"})
           => Len(sent) = http.maxRetries + 1
    /\ ends[1].kind = "status" => Len(sent) = 1

\* C4: once getJson has returned or thrown, it has issued exactly
\* maxRetries + 1 requests if every attempt ended in a timeout or a network
\* failure and exactly one request if the first attempt got a non-2xx answer,
\* and it has written as many trace lines as it made attempts.
C4_RetryClasses ==
    HttpTerminated => RetryClassCounts /\ Len(TraceLines) = Len(sent)

\* C5: a pending fuse is always the one armed by the attempt in progress, so
\* none armed by an earlier attempt is pending when the next request is
\* issued; a fuse fires only during its own attempt and an attempt ends by
\* abort only if its own fuse has fired; no fuse is pending once getJson has
\* returned or thrown.
C5_ScopedCancellation ==
    /\ \A a \in fuses :
          a = http.attempt /\ http.pc \in {"fetch", "text", "json", "sleep"}
    /\ \A i \in 1..Len(fired) : fired[i].fuse = fired[i].during
    /\ \A i \in 1..Len(ends) :
          ends[i].kind = "timeout" =>
              \E j \in 1..Len(fired) : fired[j].fuse = i - 1
    /\ HttpTerminated => fuses = {}

\* getJson returned on its third attempt: the first timed out, the second
\* met a network failure and slept with its fuse still armed.
C5_Witness ==
    /\ http.pc = "returned"
    /\ Len(sent) = 3
    /\ ends[1].kind = "timeout"
    /\ ends[2].kind = "network"
    /\ fuses = {}

\* ------------------------------------------------------------------------
\* Properties of TTLCache
\* ------------------------------------------------------------------------

\* C6: a get on a key whose latest set was made at instant t, and was not
\* undone since by delete, clear, invalidate or eviction, returns the value
\* of that set when now < t + ttlMs; when now >= t + ttlMs it returns null
\* and leaves the key out of the map.  A value that get returns belongs to an
\* entry with expiresAtMs > now.
C6_CacheExpiry ==
    lastGet.done =>
        /\ lastGet.had.present =>
              IF lastGet.at < lastGet.had.at + ttlCache.ttlMs
              THEN lastGet.value = lastGet.had.value
              ELSE lastGet.value = NullValue /\ lastGet.gone
        /\ lastGet.value # NullValue => lastGet.expiresAtMs > lastGet.at

\* A get found the entry of a set made ttlMs or more earlier, and removed it.
C6_Witness ==
    /\ lastGet.done
    /\ lastGet.had.present
    /\ lastGet.at >= lastGet.had.at + ttlCache.ttlMs
    /\ lastGet.expiresAtMs # -1
    /\ lastGet.value = NullValue
    /\ lastGet.gone

\* C11: every payload a call of getBootstrapPayload has returned, freshly
\* built, error variant or served from the cache, carries the route of the
\* RequestContext of that call.
C11_RouteInvariant ==
    \A r \in Calls :
        Done(r) => reqs[r].payload.route = reqs[r].ctx.route

\* ------------------------------------------------------------------------
\* Properties of applyCachePolicy
\* ------------------------------------------------------------------------

\* The Cache-Control directive of an anonymous response, per mode.
AnonymousDirective ==
    [html      |-> "public, max-age=0, s-maxage=60, stale-while-revalidate=300",
     bootstrap |-> "public, max-age=0, s-maxage=30, stale-while-revalidate=120",
     data      |-> "public, max-age=0, s-maxage=120, stale-while-revalidate=600",
     static    |-> "public, max-age=31536000, immutable"]

\* C12: after applyCachePolicy the response carries Vary: Accept-Encoding;
\* its Cache-Control is "private, no-store" when the request is
\* authenticated, whatever the mode, and the directive of the table for the
\* mode when the request is anonymous and the mode is one of the four.
C12_CachePolicyTable ==
    policy.pc = "done" =>
        /\ DOMAIN policy.res.headers = {"Vary", "Cache-Control"}
        /\ policy.res.headers["Vary"] = "Accept-Encoding"
        /\ policy.req \in AuthenticatedRequests =>
               policy.res.headers["Cache-Control"] = "private, no-store"
        /\ (policy.req \in AnonymousRequests /\ policy.mode \in DOMAIN AnonymousDirective) =>
               policy.res.headers["Cache-Control"] = AnonymousDirective[policy.mode]

\* An authenticated request was answered in the static mode.
C12_Witness ==
    /\ policy.pc = "done"
    /\ policy.req \in AuthenticatedRequests
    /\ policy.mode = "static"
    /\ policy.res.headers["Cache-Control"] = "private, no-store"

\* ------------------------------------------------------------------------
\* Properties of the renderer
\* ------------------------------------------------------------------------

Range(s) == {s[i] : i \in 1..Len(s)}

\* The calls of renderHtml that have returned.
Returned == {i \in 1..Len(renders) : renders[i].pc = "done"}

\* The string values a bootstrap holds.
StringValues(payload) ==
    {payload.route, payload.greeting}
        \cup (IF payload.page.kind = "error" THEN {payload.page.message} ELSE {})
        \cup (IF payload.page.kind = "todos"
              THEN {payload.page.todos[i].title : i \in 1..Len(payload.page.todos)}
              ELSE {})

HtmlSpecials == {"<", ">", "&", "'", "\""}

UnicodeEscape(c) ==
    CASE c = "<"  -> "\\u003c"
      [] c = ">"  -> "\\u003e"
      [] c = "&"  -> "\\u0026"
      [] c = "'"  -> "\\u0027"
      [] c = "\"" -> "\\u0022"

\* C13: for every character among < > & ' " that occurs in a string value of
\* the bootstrap, the inline state script of the document that renderHtml
\* returned holds the \u00XX escape of the character and no raw occurrence
\* of it.
C13_EscapeCorrectness ==
    \A i \in Returned :
        \A c \in HtmlSpecials :
            (\E v \in StringValues(renders[i].opts.bootstrap) : c \in Range(v))
                => \A script \in StateScripts(renders[i].html, BootstrapSlot) :
                       /\ UnicodeEscape(c) \in Range(script)
                       /\ c \notin Range(script)

\* The positions in a document of the inline scripts that assign to the
\* given window slot.
ScriptsAt(html, slot) ==
    {a \in 1..Len(html) : IsAt(html, <<"<script>", slot, "=">>, a)}

\* C14: the document that renderHtml returned holds an inline script that
\* assigns the bootstrap to its window slot and one that assigns the store
\* snapshot to its window slot, and both stand before the tag of the
\* application bundle.
C14_EmbeddedState ==
    \A i \in Returned :
        LET html == renders[i].html
            app  == IndexOf(html, <<AppScript>>)
        IN  /\ app # 0
            /\ \E a \in ScriptsAt(html, BootstrapSlot) : a < app
            /\ \E a \in ScriptsAt(html, PreloadedStateSlot) : a < app
            /\ \A a \in ScriptsAt(html, BootstrapSlot)
                        \cup ScriptsAt(html, PreloadedStateSlot) : a < app

\* C15: two calls of renderHtml with equal arguments return the same
\* document.
C15_DeterministicRender ==
    \A i, j \in Returned :
        renders[i].opts = renders[j].opts => renders[i].html = renders[j].html

\* C16: a step of renderHtml leaves the two bootstrap caches as they were
\* and issues no request, and a call that has returned for a listing
\* bootstrap holds the bootstrap's list in the query cache of its store.
C16_RendererPurity ==
    [][renders' # renders =>
          /\ UNCHANGED <<publicBootstrapCache, privateBootstrapCache>>
          /\ \A i \in 1..Len(renders') :
                 /\ renders'[i].requests = <<>>
                 /\ (/\ renders'[i].pc = "done"
                     /\ renders'[i].opts.bootstrap.page.kind = "todos")
                        => renders'[i].store.api.getTodos
                               = QueryFulfilled(renders'[i].opts.bootstrap.page.todos)]_vars

\* ------------------------------------------------------------------------
\* Properties of the client
\* ------------------------------------------------------------------------

\* encodeURIComponent(route)
encodeURIComponent(s) == [i \in 1..Len(s) |-> IF s[i] = "/" THEN "%2F" ELSE s[i]]

\* The request of fetchBootstrap(route).
BootstrapRequest(route) ==
    <<"GET", " ", "/", "api", "/", "bootstrap", "?path=">> \o encodeURIComponent(route)

\* C17: once the client has mounted the application on a page whose
\* snapshot slot was empty or held a value of another shape, it has sent
\* GET /api/bootstrap?path=<current path> and its store holds a bootstrap.
C17_HydrationFallback ==
    (client.pc = "mounted" /\ client.slotReads[1].value = JsNull)
        => /\ BootstrapRequest(window.path) \in Range(client.requests)
           /\ client.store.app.bootstrap # NoBootstrap

\* The bootstrap that the page embedded for start(): the one in the
\* snapshot if the snapshot slot held a state of the store, otherwise the one
\* in the bootstrap slot if that held a payload, otherwise none.
EmbeddedFor(reads) ==
    IF isValidPreloadedState(reads[1].before)
    THEN EmbeddedBootstrap(reads[1].before)
    ELSE IF Len(reads) >= 2 /\ isValidBootstrapPayload(reads[2].before)
    THEN reads[2].before
    ELSE Undefined

\* C18: once the client has mounted the application on a page that embedded
\* a listing bootstrap, the query cache holds the embedded list under the
\* listing query from the mount on, the first read of the listing dataset
\* returned that list, and no request was sent.
C18_DeferredDataReprime ==
    (client.pc = "mounted" /\ PageKind(EmbeddedFor(client.slotReads)) = "todos")
        => LET list == EmbeddedFor(client.slotReads).page.todos
           IN  /\ client.store.api.getTodos = QueryFulfilled(list)
               /\ \A i \in 1..Len(client.todosReads) :
                      /\ client.todosReads[i].entry = QueryFulfilled(list)
                      /\ ~client.todosReads[i].requested
               /\ client.requests = <<>>

\* C18 witness: a page rendered by the server for a listing bootstrap with
\* two todos, hydrated, and the listing dataset read.
C18_Witness ==
    /\ client.pc = "mounted"
    /\ client.mount = "hydrateRoot"
    /\ served # Undefined
    /\ client.slotReads[1].before = Undefined
    /\ PageKind(EmbeddedFor(client.slotReads)) = "todos"
    /\ Len(EmbeddedFor(client.slotReads).page.todos) = 2
    /\ client.todosReads # <<>>

\* The value a read of a slot returns: what the slot held if that passes the
\* slot's shape validation, null otherwise.
Validated(read) ==
    IF \/ read.slot = "bootstrap" /\ isValidBootstrapPayload(read.before)
       \/ read.slot = "preloaded" /\ isValidPreloadedState(read.before)
    THEN read.before ELSE JsNull

\* C19 (as claimed): a read of a slot deletes the slot whenever it was set,
\* returns its value only if that passes shape validation, and every later
\* read of the same slot returns null.
C19_ReadOnceSlots ==
    \A i \in 1..Len(client.slotReads) :
        LET read == client.slotReads[i]
        IN  /\ read.before # Undefined => read.after = Undefined
            /\ read.value = Validated(read)
            /\ \A j \in (i + 1)..Len(client.slotReads) :
                   client.slotReads[j].slot = read.slot
                       => client.slotReads[j].value = JsNull

\* C19 (amended): a read of a slot deletes the slot whenever it held a
\* truthy value, whether or not that passes shape validation, and leaves a
\* slot that holds null, 0, "" or false as it is; it returns the value only
\* if that passes shape validation, and every later read of the same slot
\* returns null.
C19_ReadOnceTruthySlots ==
    \A i \in 1..Len(client.slotReads) :
        LET read == client.slotReads[i]
        IN  /\ ToBoolean(read.before) => read.after = Undefined
            /\ ~ToBoolean(read.before) => read.after = read.before
            /\ read.value = Validated(read)
            /\ \A j \in (i + 1)..Len(client.slotReads) :
                   client.slotReads[j].slot = read.slot
                       => client.slotReads[j].value = JsNull

\* C19 witness: the bootstrap slot held an object that is no payload; the
\* read deleted it and returned null, and so did a later read.
C19_Witness ==
    \E i, j \in 1..Len(client.slotReads) :
        /\ i < j
        /\ client.slotReads[i].slot = "bootstrap"
        /\ client.slotReads[j].slot = "bootstrap"
        /\ client.slotReads[i].before = [route |-> HomeRoute]
        /\ client.slotReads[i].after = Undefined
        /\ client.slotReads[i].value = JsNull
        /\ client.slotReads[j].value = JsNull

\* C20: once the client has mounted the application on a page a server
\* render filled, the application slice of its store (bootstrap and message)
\* equals the one of the store the server ended the render with.
C20_HydrationEquivalence ==
    (client.pc = "mounted" /\ served # Undefined)
        => client.store.app = served.app

\* ------------------------------------------------------------------------
\* Properties of the request identity
\* ------------------------------------------------------------------------

IdentityHandled(i) == identity.pc = "call" /\ identity.out[i] # Undefined

\* C21: a request is authenticated exactly when its Cookie header holds a
\* cookie whose name is exactly "session", or its Authorization header is
\* non-empty after trimming.
C21_AuthenticationRule ==
    \A i \in 1..2 :
        IdentityHandled(i) =>
            identity.out[i].ctx.isAuthenticated
                = (\/ HasSessionCookie(identity.req[i].cookie)
                   \/ Len(Trim(identity.req[i].authorization)) > 0)

\* C22 as stated: two requests that differ only in headers other than Cookie
\* and Authorization get the same isAuthenticated, the same bootstrap cache
\* key and the same Cache-Control.
C22_HeaderIndependence ==
    IdentityHandled(1) /\ IdentityHandled(2) =>
        /\ identity.out[1].ctx.isAuthenticated = identity.out[2].ctx.isAuthenticated
        /\ identity.out[1].key = identity.out[2].key
        /\ identity.out[1].res = identity.out[2].res

\* The identity of the request comes from its Cookie header: a value follows
\* "session=", or the request is not authenticated at all.
IdentityFromCookie(req) ==
    \/ SessionMatch(req.cookie) # <<>>
    \/ ~isAuthenticated(req)

\* C22, amended: such requests get the same isAuthenticated and the same
\* Cache-Control; they get the same bootstrap cache key when the identity
\* comes from the Cookie header, and the key of each holds the session value
\* or is the anonymous key whatever x-user-id says; a request authenticated
\* by its Authorization header alone gets a fresh random identity, so the two
\* keys differ.
C22_HeaderIndependenceOfSessions ==
    IdentityHandled(1) /\ IdentityHandled(2) =>
        /\ identity.out[1].ctx.isAuthenticated = identity.out[2].ctx.isAuthenticated
        /\ identity.out[1].res = identity.out[2].res
        /\ IdentityFromCookie(identity.req[1]) =>
              /\ identity.out[1].key = identity.out[2].key
              /\ \A i \in 1..2 :
                    identity.out[i].ctx.userId
                        = IF isAuthenticated(identity.req[i])
                          THEN SessionMatch(identity.req[i].cookie) ELSE Null
        /\ ~IdentityFromCookie(identity.req[1]) =>
              identity.out[1].key # identity.out[2].key

\* Two session requests that name different users in x-user-id were both
\* handled.
C22_Witness ==
    /\ IdentityHandled(1) /\ IdentityHandled(2)
    /\ identity.req[1].xUserId = <<"a">>
    /\ identity.req[2].xUserId = <<"admin">>
    /\ identity.req[1].cookie = <<"session=", "a">>
    /\ identity.out[1].key = identity.out[2].key

\* ------------------------------------------------------------------------
\* Properties of the upstream requests
\* ------------------------------------------------------------------------

\* C23: every upstream request made for an inbound request, the identity
\* call or the listing call and every retry of it, carries the header
\* X-Request-ID with the requestId of that request's context.
C23_RequestIdPropagation ==
    \A k \in 1..Len(sent) :
        /\ sent[k].xRequestId = http.ctx.requestId
        /\ sent[k].xRequestId # Null
        /\ sent[k].url = http.url

\* The listing call of the second inbound request is at its third attempt.
C23_Witness ==
    /\ Len(sent) = 3
    /\ http.url = TodosUrl
    /\ http.ctx.requestId = randomUUID(3)
    /\ sent[3].attempt = 2

\* ------------------------------------------------------------------------
\* Properties of the listing
\* ------------------------------------------------------------------------

\* The text of a listing record with exactly id, title and completed.
ListingItemText(e) ==
    <<"{", "\"", "id", "\"", ":", ToString(e.id), ",",
      "\"", "title", "\"", ":">> \o JsonString(e.title)
        \o <<",", "\"", "completed", "\"", ":",
             IF e.completed THEN "true" ELSE "false", "}">>

ListingText(upstream) ==
    JsonArrayText([i \in 1..Len(upstream) |-> ListingItemText(upstream[i])])

\* The calls of getBootstrapPayload that returned a listing payload.
ListingCalls ==
    {r \in 1..Len(reqs) : reqs[r].pc = "done" /\ reqs[r].payload.page.kind = "todos"}

UpstreamOnlyKeys == {"userId", "dueDate"}

\* C24: no upstream-only field reaches a client.  The records of a 200 body
\* of GET /api/todos, of a listing payload returned by getBootstrapPayload
\* (built or taken from the cache) and of the state embedded in the document
\* have exactly the fields id, title and completed, with the upstream's
\* values and in the upstream's order.
C24_ProjectionNarrowing ==
    listing.pc = "serve" =>
        /\ (listing.api # NullValue /\ listing.api.status = 200) =>
               listing.api.body = ListingText(listing.upstream)
        /\ \A r \in ListingCalls :
               LET todos == reqs[r].payload.page.todos
               IN  /\ Len(todos) = Len(listing.upstream)
                   /\ \A i \in 1..Len(todos) :
                          /\ DOMAIN todos[i] = {"id", "title", "completed"}
                          /\ todos[i].id = listing.upstream[i].id
                          /\ todos[i].title = listing.upstream[i].title
                          /\ todos[i].completed = listing.upstream[i].completed
        /\ \A k \in 1..Len(listing.pages) :
               LET html == listing.pages[k].html
               IN  /\ \A key \in UpstreamOnlyKeys :
                          ~Includes(html, <<"\"", key, "\"", ":">>)
                   /\ listing.pages[k].call \in ListingCalls =>
                          /\ StateScripts(html, BootstrapSlot) # {}
                          /\ \A script \in StateScripts(html, BootstrapSlot) :
                                 Includes(script, ListingText(listing.upstream))

\* A listing of three records, two of them with a due date, was served by
\* GET /api/todos, built by one call, taken from the cache by the next, and
\* the document of the later call was rendered.
C24_Witness ==
    /\ listing.pc = "serve"
    /\ Len(listing.upstream) = 3
    /\ listing.api # NullValue /\ listing.api.status = 200
    /\ ListingCalls = {1, 2}
    /\ reqs[2].hit
    /\ \E k \in 1..Len(listing.pages) : listing.pages[k].call = 2

\* ------------------------------------------------------------------------
\* Properties of overlapping calls
\* ------------------------------------------------------------------------

\* The calls of getBootstrapPayload that are between their cache miss and
\* their return: an upstream assembly in flight.
Assembling(key) ==
    {r \in 1..Len(reqs) : reqs[r].pc \in {"user", "todos"} /\ reqs[r].key = key}

Overlapped(q, r) ==
    /\ q \in Calls /\ r \in Calls
    /\ q \in reqs[r].concurrent
    /\ reqs[q].key = reqs[r].key
    /\ ~reqs[q].hit /\ ~reqs[r].hit

\* The entries that the bootstrap caches hold for key.
EntriesOf(key) ==
    {publicBootstrapCache.map[i] : i \in {j \in 1..Len(publicBootstrapCache.map) :
                                             publicBootstrapCache.map[j].key = key}}
        \cup {privateBootstrapCache.map[i] :
                  i \in {j \in 1..Len(privateBootstrapCache.map) :
                            privateBootstrapCache.map[j].key = key}}

\* C26: of two overlapping calls for one key, neither waits for the other:
\* each can settle the upstream call it awaits in every state, each returns
\* a whole payload built for its own route from its own upstream answers,
\* and the cache holds for the key nothing but the payload of the call whose
\* set ran last, which is never an error payload.
C26_LosingTheRace ==
    \A q \in Calls : \A r \in Calls :
        Overlapped(q, r) =>
            /\ \A c \in {q, r} :
                  /\ reqs[c].pc = "user" =>
                         \A o \in OutcomeSeqs(UserOutcomes) : ENABLED UserSettles(c, o)
                  /\ reqs[c].pc = "todos" =>
                         \A o \in OutcomeSeqs(TodosOutcomes) : ENABLED TodosSettles(c, o)
                  /\ Done(c) =>
                         /\ reqs[c].settled = "resolved"
                         /\ reqs[c].payload.route = reqs[c].ctx.route
                         /\ Kind(c) \in {"home", "todos", "error"}
                         /\ Kind(c) # "error" =>
                                reqs[c].payload.greeting = reqs[c].greeting
            /\ \A e \in EntriesOf(reqs[r].key) :
                  /\ LastWriter(writes, reqs[r].key) # 0
                  /\ e.value = reqs[LastWriter(writes, reqs[r].key)].payload
                  /\ e.value.page.kind # "error"
                  /\ e.expiresAtMs =
                         reqs[LastWriter(writes, reqs[r].key)].setAt + BootstrapTtlMs

\* The call that arrived first stored last, the two stored different
\* listings, and the cache holds the one of the first call.
C26_Witness ==
    /\ Overlapped(1, 2)
    /\ Done(1) /\ Done(2)
    /\ Len(writes) = 2 /\ writes[1].by = 2 /\ writes[2].by = 1
    /\ reqs[1].payload # reqs[2].payload
    /\ \E e \in EntriesOf(reqs[1].key) : e.value = reqs[1].payload

\* ------------------------------------------------------------------------
\* Properties of the capacity of TTLCache
\* ------------------------------------------------------------------------

\* C27: a set on a cache that holds maxSize entries removes exactly the entry
\* inserted earliest when the key is new and removes nothing when the key is
\* there already, and after any step of set, get, delete, invalidate, clear
\* or the sweep the map holds at most maxSize entries, whatever the keys are.
C27_BoundedCapacity ==
    [][/\ Len(ttlCache'.map) <= ttlCache'.maxSize
       /\ \A key \in CacheKeys : \A value \in CacheValues :
              (CacheSet(key, value) /\ Len(ttlCache.map) = ttlCache.maxSize) =>
                  IF MapHas(ttlCache.map, key)
                  THEN MapKeys(ttlCache'.map) = MapKeys(ttlCache.map)
                  ELSE MapKeys(ttlCache'.map) =
                           (MapKeys(ttlCache.map) \ {ttlCache.map[1].key}) \cup {key}]_vars

\* ------------------------------------------------------------------------
\* Properties of the server
\* ------------------------------------------------------------------------

Answered == {g \in 1..Len(gets) : gets[g].pc = "done"}

\* The path is /api or lies below it.
UnderApi(path) == path = <<"/", "api">> \/ IsAt(path, <<"/", "api", "/">>, 1)

\* The last segment of the path ends in a file extension.
HasExtension(path) ==
    Len(path) >= 2 /\ path[Len(path)] \in Extensions /\ path[Len(path) - 1] # "/"

\* C28: a GET whose path has no file extension and is not under /api is
\* answered by the SSR handler with a 200 HTML document; a GET under /api
\* that matches no API route, and a GET with a file extension that matches
\* no static file, get the 404 of the fallback and are never rendered.
C28_RouteDispatch ==
    \A g \in Answered :
        /\ (~HasExtension(gets[g].path) /\ ~UnderApi(gets[g].path)) =>
               /\ gets[g].handler = "ssr"
               /\ gets[g].status = 200
               /\ gets[g].body = "html"
        /\ (UnderApi(gets[g].path) /\ gets[g].path \notin ApiRoutes) =>
               gets[g].handler = "404" /\ gets[g].status = 404
        /\ (HasExtension(gets[g].path) /\ gets[g].path \notin StaticFiles) =>
               gets[g].handler = "404" /\ gets[g].status = 404

\* The GETs that the SSR handler took and that reached readManifest with a
\* manifest in the cache, stored by an earlier successful read.
AfterRead == {g \in 1..Len(gets) : gets[g].handler = "ssr" /\ gets[g].had.cached # JsNull}

\* readManifest returned the cached object to the GET without a file read.
ServedFromCache(g) ==
    /\ ~gets[g].readFile
    /\ gets[g].pc = "done"
    /\ gets[g].returned = gets[g].had.cached
    /\ gets[g].after = gets[g].had

\* C29: after a successful read, readManifest in production returns the
\* cached object without reading the file, whatever time has passed; in
\* development it does so when called less than 5 s after the instant of the
\* read that filled the cache, and when called 5 s or more after it, it reads
\* the file again, and returns and caches what the file then holds.
C29_ManifestCacheLifetime ==
    \A g \in AfterRead :
        IF manifest.env = "production"
           \/ gets[g].at - gets[g].had.timestamp < CacheTtlMs
        THEN ServedFromCache(g)
        ELSE /\ gets[g].readFile
             /\ (gets[g].pc = "done" /\ gets[g].saw.kind = "json") =>
                    /\ gets[g].returned = ManifestObject(gets[g].saw.members)
                    /\ gets[g].after = [cached    |-> gets[g].returned,
                                        timestamp |-> gets[g].at]

\* In development a GET made 5 s after the read of the first one has read
\* the rewritten file and was served its bundle.
C29_Witness ==
    /\ manifest.env = "development"
    /\ Len(gets) = 2
    /\ 2 \in AfterRead /\ gets[2].pc = "done"
    /\ gets[2].at - gets[2].had.timestamp = CacheTtlMs
    /\ gets[2].readFile
    /\ gets[2].status = 200
    /\ gets[2].returned # gets[2].had.cached
    /\ gets[2].assets.mainScript = JsString(<<"/assets/app.2.js">>)

\* The manifest names no primary script: neither app.js nor main.js.
NoMainScript(object) ==
    \A i \in 1..Len(object.members) :
        \/ object.members[i].key \notin {"app.js", "main.js"}
        \/ object.members[i].value = <<>>

Started == listener.pc # "start"

Blank(env) == ~env.set \/ Trim(env.text) = <<>>

ListeningOn(n) == listener.pc = "listening" /\ listener.port = n

\* The boot failed: the process ended with the error that names the value
\* and the range, and is bound to no port.
BootFailed ==
    /\ listener.pc = "exited"
    /\ listener.port = 0
    /\ listener.error.name = "Error"
    /\ Includes(listener.error.message, listener.PORT.text)
    /\ Includes(listener.error.message, <<". Expected an integer between 1 and 65535.">>)

\* What the text denotes, read as a numeric literal without any rounding:
\* 0 when it is no literal, or negative, or has a fraction that is not zero;
\* else its value (kept up to MaxPort + 1).
Denoted(text) ==
    LET number == Number(text)
        s      == Trim(text)
        body   == IF s[1] \in {"+", "-"} THEN Tail(s) ELSE s
    IN  IF number.kind # "finite" \/ number.negative THEN 0
        ELSE IF Len(s) >= 2 /\ s[1] = "0" /\ s[2] \in {"x", "X", "o", "O", "b", "B"}
             THEN number.value
        ELSE IF AllZero(DecimalParts(body).fraction) THEN DecimalParts(body).whole
        ELSE 0

\* C31: once the process has started, it listens on 3000 when PORT is unset
\* or blank, on n when PORT denotes an integer n of 1..65535, and has failed
\* with the descriptive error, listening on nothing, for every other value.
C31_PortValidation ==
    Started =>
        IF Blank(listener.PORT) THEN ListeningOn(DefaultPort)
        ELSE IF Denoted(listener.PORT.text) \in MinPort..MaxPort
             THEN ListeningOn(Denoted(listener.PORT.text))
        ELSE BootFailed

\* The text is a decimal literal within half a unit in the last place of the
\* integer n: the fraction is lost when Number rounds it to a double.
RoundsTo(text, n) ==
    LET s     == Trim(text)
        body  == IF s[1] \in {"+", "-"} THEN Tail(s) ELSE s
        parts == DecimalParts(body)
    IN  /\ s[1] # "-"
        /\ parts.ok
        /\ ~AllZero(parts.fraction)
        /\ \/ parts.whole = n /\ FitsHalfUlp(parts.fraction, HalfUlpBits(n))
           \/ parts.whole = n - 1
                /\ FitsHalfUlp(Complement(parts.fraction), HalfUlpBits(n - 1))

\* The integers of 1..65535 next to the value of a decimal literal.
Nearest(text) ==
    LET s     == Trim(text)
        body  == IF s[1] \in {"+", "-"} THEN Tail(s) ELSE s
    IN  {n \in {DecimalParts(body).whole, DecimalParts(body).whole + 1} :
            n \in MinPort..MaxPort}

\* C31 (amended): as above, and a text with a fraction is accepted as n when
\* the double nearest to it is the integer n of 1..65535; every other value
\* fails with the descriptive error before the process listens.
C31_PortValidationOfDoubles ==
    Started =>
        IF Blank(listener.PORT) THEN ListeningOn(DefaultPort)
        ELSE IF Denoted(listener.PORT.text) \in MinPort..MaxPort
             THEN ListeningOn(Denoted(listener.PORT.text))
        ELSE IF \E n \in Nearest(listener.PORT.text) : RoundsTo(listener.PORT.text, n)
             THEN \E n \in Nearest(listener.PORT.text) :
                     RoundsTo(listener.PORT.text, n) /\ ListeningOn(n)
        ELSE BootFailed

\* The process listens on the integer that a text with a fraction was
\* rounded to.
C31_Witness ==
    /\ listener.pc = "listening"
    /\ ~Blank(listener.PORT)
    /\ RoundsTo(listener.PORT.text, listener.port)

\* ------------------------------------------------------------------------
\* Properties of anonymous and authenticated traffic
\* ------------------------------------------------------------------------

AnonymousHome(r) ==
    /\ ~reqs[r].ctx.isAuthenticated
    /\ reqs[r].ctx.route # TodosRoute

\* C32: a call with an unauthenticated context on a route other than the
\* listing route makes no upstream call, neither for the identity nor for
\* the listing, and returns the home payload with the greeting "Welcome" and
\* the requested route, whether it missed or hit the cache.
C32_AnonymousHome ==
    \A r \in 1..Len(reqs) :
        AnonymousHome(r) =>
            /\ reqs[r].pc = "done"
            /\ reqs[r].settled = "resolved"
            /\ reqs[r].userCalls = 0
            /\ reqs[r].todosCalls = 0
            /\ reqs[r].payload = makeHomeBootstrap(reqs[r].ctx.route, <<"Welcome">>)
            /\ reqs[r].payload.route = reqs[r].ctx.route
            /\ reqs[r].payload.page.kind = "home"

\* Two anonymous calls on a route that is neither the home nor the listing
\* route, a miss and then a hit, among authenticated traffic on other keys.
C32_Witness ==
    \E r, q \in 1..Len(reqs) :
        /\ r < q
        /\ AnonymousHome(r) /\ AnonymousHome(q)
        /\ reqs[r].ctx.route = <<"/", "about">>
        /\ reqs[q].ctx.route = <<"/", "about">>
        /\ ~reqs[r].hit /\ reqs[q].hit

AnonKey(key) == IsAt(key, <<"anon:">>, 1)

UserKey(key) == IsAt(key, <<"user=">>, 1)

Personalised(payload) == IsAt(payload.greeting, <<"Welcome back">>, 1)

\* C33: an unauthenticated call is never handed a payload with the greeting
\* of an authenticated user, fresh or from the cache; unauthenticated
\* contexts use anon:<route> keys and authenticated ones user=<id>:<route>
\* keys, the two never equal, and every cache.get and cache.set of an
\* authenticated call (its lookup, the entry that served it, its write) is on
\* a user= key.
C33_NoPersonalisedPayloadForAnonymous ==
    /\ \A r \in 1..Len(reqs) :
          /\ ~reqs[r].ctx.isAuthenticated =>
                /\ reqs[r].key = <<"anon:">> \o reqs[r].ctx.route
                /\ reqs[r].payload # NullValue => ~Personalised(reqs[r].payload)
                /\ reqs[r].hit =>
                      /\ reqs[r].servedBy \in 1..Len(reqs)
                      /\ ~reqs[reqs[r].servedBy].ctx.isAuthenticated
          /\ reqs[r].ctx.isAuthenticated =>
                /\ reqs[r].key = <<"user=">> \o reqs[r].ctx.userId \o <<":">>
                                     \o reqs[r].ctx.route
                /\ ~AnonKey(reqs[r].key)
                /\ reqs[r].hit =>
                      /\ reqs[r].servedBy \in 1..Len(reqs)
                      /\ reqs[reqs[r].servedBy].ctx.isAuthenticated
    /\ \A r, q \in 1..Len(reqs) :
          reqs[r].ctx.isAuthenticated /\ ~reqs[q].ctx.isAuthenticated
              => reqs[r].key # reqs[q].key
    /\ \A i \in 1..Len(writes) :
          IF reqs[writes[i].by].ctx.isAuthenticated
          THEN UserKey(writes[i].key) /\ ~AnonKey(writes[i].key)
          ELSE AnonKey(writes[i].key) /\ ~UserKey(writes[i].key)

\* An authenticated call stored a personalised payload for a route, and an
\* anonymous call on the same route, made while that entry was live, was
\* answered with the plain greeting.
C33_Witness ==
    \E r, q \in 1..Len(reqs) :
        /\ r < q
        /\ reqs[r].ctx.isAuthenticated
        /\ reqs[r].pc = "done" /\ reqs[r].setAt >= 0
        /\ Personalised(reqs[r].payload)
        /\ ~reqs[q].ctx.isAuthenticated
        /\ reqs[q].ctx.route = reqs[r].ctx.route
        /\ reqs[q].arrivedAt - reqs[r].setAt < BootstrapTtlMs
        /\ reqs[q].pc = "done"
        /\ reqs[q].payload.greeting = <<"Welcome">>

\* ------------------------------------------------------------------------
\* Properties of the SSR handler
\* ------------------------------------------------------------------------

SsrGets == {g \in 1..Len(gets) : gets[g].handler = "ssr"}

\* C34: the context of every document request has a userId other than null
\* exactly when isAuthenticated is true, and at every stage of the handler
\* (inside getBootstrapPayload, before and after applyCachePolicy and
\* renderHtml) it is the context buildRequestContext made of the request.
C34_ContextIntegrity ==
    \A g \in SsrGets :
        LET built == buildRequestContext(gets[g].req, Query(gets[g].path), gets[g].call)
        IN  /\ (gets[g].ctx.userId # Null) <=> gets[g].ctx.isAuthenticated
            /\ gets[g].ctx.isAuthenticated = isAuthenticated(gets[g].req)
            /\ gets[g].ctx = built
            /\ reqs[gets[g].call].ctx = built

\* Two documents were sent: one for an anonymous context, one for
\* credentials without a session, the latter on the listing route after both
\* upstream calls of getBootstrapPayload.
C34_Witness ==
    \E g, h \in SsrGets :
        /\ gets[g].pc = "done" /\ gets[g].status = 200
        /\ gets[h].pc = "done" /\ gets[h].status = 200
        /\ ~gets[g].ctx.isAuthenticated /\ gets[g].ctx.userId = Null
        /\ gets[h].ctx.isAuthenticated
        /\ gets[h].ctx.userId = randomUUID(2 * gets[h].call)
        /\ reqs[gets[h].call].userCalls = 1
        /\ reqs[gets[h].call].todosCalls = 1

\* ------------------------------------------------------------------------
\* Properties of the degraded greeting
\* ------------------------------------------------------------------------

\* The call r built a payload after its identity call had failed.
BuiltDegraded(r) ==
    /\ reqs[r].pc = "done"
    /\ reqs[r].userFailed
    /\ reqs[r].payload.page.kind # "error"

\* cache.set was called with the payload of r under its key.
Stored(r) ==
    /\ reqs[r].setAt >= 0
    /\ \E i \in 1..Len(writes) : writes[i].by = r /\ writes[i].key = reqs[r].key

\* The call r stored a payload built with the fallback greeting.
StoredDegraded(r) ==
    /\ reqs[r].pc = "done"
    /\ reqs[r].userFailed
    /\ Stored(r)
    /\ reqs[r].payload.greeting = <<"Welcome back">>

\* The call q arrived after r had returned, with the key of r, less than the
\* TTL after r stored its payload.
LaterWithinTtl(r, q) ==
    /\ r < q
    /\ r \notin reqs[q].concurrent
    /\ reqs[q].key = reqs[r].key
    /\ reqs[q].arrivedAt - reqs[r].setAt < BootstrapTtlMs

ServedDegraded(r, q) ==
    /\ reqs[q].pc = "done"
    /\ reqs[q].hit
    /\ reqs[q].userCalls = 0
    /\ reqs[q].todosCalls = 0
    /\ reqs[q].payload = reqs[r].payload
    /\ reqs[q].payload.greeting = <<"Welcome back">>

\* C35: once a call has stored a payload built with the fallback greeting,
\* every later call with the same key within the TTL is a hit that returns
\* that payload, greeting "Welcome back", without any upstream call.
C35_DegradedResultCached ==
    /\ \A r \in 1..Len(reqs) : BuiltDegraded(r) => StoredDegraded(r)
    /\ \A r, q \in 1..Len(reqs) :
          StoredDegraded(r) /\ LaterWithinTtl(r, q) => ServedDegraded(r, q)

WriteIndex(r) == CHOOSE i \in 1..Len(writes) : writes[i].by = r

\* Before q arrived, a call that was in flight beside r stored its own
\* payload over the one of r.
Overwritten(r, q) ==
    \E s \in 1..Len(reqs) :
        /\ s # r /\ s < q
        /\ s \notin reqs[q].concurrent
        /\ reqs[s].key = reqs[r].key
        /\ reqs[s].setAt >= 0
        /\ WriteIndex(s) > WriteIndex(r)

\* C35 (amended): a payload built with the fallback greeting is stored like
\* any other; a later call with the same key within the TTL is a hit that
\* returns it without any upstream call, unless another call had stored its
\* own payload under the key in between.
C35_DegradedResultCachedUntilOverwritten ==
    /\ \A r \in 1..Len(reqs) : BuiltDegraded(r) => StoredDegraded(r)
    /\ \A r, q \in 1..Len(reqs) :
          StoredDegraded(r) /\ LaterWithinTtl(r, q) /\ ~Overwritten(r, q)
              => ServedDegraded(r, q)

\* A later call was served the degraded payload of an earlier one whose
\* identity call had failed.
C35_Witness ==
    \E r, q \in 1..Len(reqs) :
        /\ StoredDegraded(r)
        /\ LaterWithinTtl(r, q)
        /\ ~Overwritten(r, q)
        /\ ServedDegraded(r, q)
        /\ reqs[r].userCalls = 1

\* The document request g is authenticated by its Authorization header
\* alone: its cookie holds no session value.
AuthorizationOnly(g) ==
    /\ isAuthenticated(gets[g].req)
    /\ SessionMatch(gets[g].req.cookie) = <<>>

CallOf(g) == reqs[gets[g].call]

\* The call of g missed the cache and made its own upstream calls: the
\* identity call, and the listing call on the listing route.
OwnAssembly(g) ==
    /\ ~CallOf(g).hit
    /\ CallOf(g).userCalls = 1
    /\ CallOf(g).todosCalls = (IF CallOf(g).ctx.route = TodosRoute THEN 1 ELSE 0)

\* The private cache holds the payload of g under the key of g, written by
\* the call of g.
LeftEntry(g) ==
    /\ Stored(gets[g].call)
    /\ MapHas(privateBootstrapCache.map, CallOf(g).key)
    /\ privateBootstrapCache.map[MapIndex(privateBootstrapCache.map, CallOf(g).key)].value
           = CallOf(g).payload

FreshKeys ==
    \A g, h \in SsrGets :
        AuthorizationOnly(g) /\ AuthorizationOnly(h) /\ g # h =>
            /\ CallOf(g).ctx.userId # CallOf(h).ctx.userId
            /\ CallOf(g).key # CallOf(h).key

\* C36: two requests authenticated by the Authorization header alone have
\* different userIds and different cache keys, and each of them, once its
\* call has returned, was a miss, made its own upstream calls and left an
\* entry of its own in the private cache.
C36_FreshIdentityPerRequest ==
    /\ FreshKeys
    /\ \A g \in SsrGets :
          AuthorizationOnly(g) /\ CallOf(g).pc = "done" =>
              OwnAssembly(g) /\ LeftEntry(g)

\* C36 (amended): as above, but the entry is left only when the assembly
\* built a payload; a call that ended in the error variant leaves nothing
\* under its key.
C36_FreshIdentityPerBuiltPayload ==
    /\ FreshKeys
    /\ \A g \in SsrGets :
          AuthorizationOnly(g) /\ CallOf(g).pc = "done" =>
              /\ OwnAssembly(g)
              /\ IF CallOf(g).payload.page.kind = "error"
                 THEN ~MapHas(privateBootstrapCache.map, CallOf(g).key)
                 ELSE LeftEntry(g)

\* Two requests with the same credentials and route: both missed, both made
\* their upstream calls, and the private cache holds two entries.
C36_Witness ==
    \E g, h \in SsrGets :
        /\ g < h
        /\ AuthorizationOnly(g) /\ AuthorizationOnly(h)
        /\ gets[g].req = gets[h].req
        /\ CallOf(g).pc = "done" /\ CallOf(h).pc = "done"
        /\ gets[g].call \notin CallOf(h).concurrent
        /\ OwnAssembly(g) /\ OwnAssembly(h)
        /\ LeftEntry(g) /\ LeftEntry(h)
        /\ Len(privateBootstrapCache.map) = 2

AssetsResolved(g) == gets[g].assets # NullValue

PublicHtml == "public, max-age=0, s-maxage=60, stale-while-revalidate=300"

EntryOf(cache, key) == cache.map[MapIndex(cache.map, key)]

LiveEntry(key) ==
    /\ MapHas(ttlCache.map, key)
    /\ ~Expired(EntryOf(ttlCache, key), now)

\* get(key) on a live entry: the value is returned and the cache is as it
\* was, entry for entry.
GetLeavesEntries(key) ==
    CacheGet(key) /\ LiveEntry(key) =>
        /\ lastGet'.value = EntryOf(ttlCache, key).value
        /\ ttlCache' = ttlCache
        /\ EntryOf(ttlCache', key).expiresAtMs = EntryOf(ttlCache, key).expiresAtMs

\* set(key, value) on a key the map holds: the entry has the new value and
\* expires ttl after now, it is where it was in the order of the map, and
\* every other entry is as it was.
SetKeepsPosition(key, value) ==
    CacheSet(key, value) /\ MapHas(ttlCache.map, key) =>
        LET i == MapIndex(ttlCache.map, key)
        IN  /\ Len(ttlCache'.map) = Len(ttlCache.map)
            /\ ttlCache'.map[i] = [key |-> key, value |-> value,
                                   expiresAtMs |-> now + ttlCache.ttlMs]
            /\ \A j \in 1..Len(ttlCache.map) :
                  j # i => ttlCache'.map[j] = ttlCache.map[j]

\* C38: a get of a live entry returns its value and changes neither the
\* entry, nor its expiresAtMs, nor any other entry; a set of a key that is
\* there replaces the value, sets expiresAtMs to now + ttl and leaves the key
\* at its place in the eviction order.
C38_ExpiryFixedAtWrite ==
    [][/\ \A key \in CacheKeys : GetLeavesEntries(key)
       /\ \A key \in CacheKeys : \A value \in CacheValues : SetKeepsPosition(key, value)]_vars

\* Two entries: the older one was written again after the younger one and
\* is still first in the order, and the last get read a live entry some time
\* after its write without moving its expiry.
C38_Witness ==
    /\ Len(ttlCache.map) = 2
    /\ live[ttlCache.map[1].key].present /\ live[ttlCache.map[2].key].present
    /\ live[ttlCache.map[1].key].at > live[ttlCache.map[2].key].at
    /\ ttlCache.map[1].expiresAtMs > ttlCache.map[2].expiresAtMs
    /\ lastGet.done
    /\ lastGet.value # NullValue
    /\ lastGet.had.present
    /\ lastGet.at > lastGet.had.at
    /\ lastGet.expiresAtMs = lastGet.had.at + ttlCache.ttlMs
    /\ MapHas(ttlCache.map, lastGet.key)
    /\ EntryOf(ttlCache, lastGet.key).expiresAtMs = lastGet.expiresAtMs

\* ------------------------------------------------------------------------
\* Properties of the termination of getBootstrapPayload
\* ------------------------------------------------------------------------

\* The largest number of requests getJson issues for one call of it.
maxAttempts == API_CONFIG.retries + 1

\* The requests call r has sent to the upstream at url, as indices of sent.
AttemptsAt(r, url) ==
    {i \in DOMAIN sent : sent[i].xRequestId = reqs[r].ctx.requestId
                         /\ sent[i].url = url}

\* The resources call r needs: the identity for a visitor who is signed
\* in, the listing on the listing route.
Needs(r, url) ==
    \/ url = UserUrl /\ reqs[r].ctx.isAuthenticated
    \/ url = TodosUrl /\ reqs[r].ctx.route = TodosRoute

\* The name of the error an attempt that ended as kind throws.
ThrownName(kind) ==
    CASE kind = "timeout"     -> "AbortError"
      [] kind = "network"     -> "TypeError"
      [] kind = "unparseable" -> "SyntaxError"
      [] kind = "status"      -> "Error"

\* getJson has used up its attempts and none has succeeded.
AllAttemptsFailed ==
    /\ HttpTerminated
    /\ http.attempt + 1 = maxAttempts
    /\ ends[Len(ends)].kind # "ok"

\* The attempts call r makes are bounded for each resource, are made to
\* the resources it needs only, and the identity is asked before the
\* listing.
BoundedAttempts(r) ==
    /\ \A url \in {UserUrl, TodosUrl} :
          /\ Cardinality(AttemptsAt(r, url)) <= maxAttempts
          /\ AttemptsAt(r, url) # {} => Needs(r, url)
    /\ \A i \in AttemptsAt(r, UserUrl), j \in AttemptsAt(r, TodosUrl) : i < j

\* getJson throws the error of its last attempt when all attempts failed.
LastErrorRaised ==
    AllAttemptsFailed =>
        /\ http.pc = "thrown"
        /\ http.result = http.lastError
        /\ http.result.name = ThrownName(ends[Len(ends)].kind)

\* Call r has returned a payload.
ReturnedPayload(r) ==
    /\ r \in 1..Len(reqs)
    /\ reqs[r].pc = "done"
    /\ reqs[r].settled = "resolved"
    /\ reqs[r].payload # NullValue

\* A call that returned has asked each resource it needed, unless the
\* catch block ran before.
AskedWhatItNeeded(r) ==
    ReturnedPayload(r) /\ ~reqs[r].hit =>
        /\ Needs(r, UserUrl) => AttemptsAt(r, UserUrl) # {}
        /\ Needs(r, TodosUrl) => AttemptsAt(r, TodosUrl) # {}

\* C39: every call of getBootstrapPayload terminates.  With every await of
\* getJson settled in the end (a fetch is answered, fails or is aborted by
\* its fuse), a call sends at most maxAttempts requests to each upstream
\* it needs, the identity before the listing; getJson throws the error of
\* its last attempt when all attempts failed; and the call returns a
\* payload.
C39_GetBootstrapTerminates ==
    /\ [](\A r \in 1..Len(reqs) : BoundedAttempts(r) /\ AskedWhatItNeeded(r))
    /\ []LastErrorRaised
    /\ \A r \in 1..MaxAwaitedCalls : (Len(reqs) >= r) ~> ReturnedPayload(r)

\* A call on the listing route with a session has returned the error
\* payload after maxAttempts requests to the identity upstream and
\* maxAttempts requests to the listing upstream, the last of them cut by
\* its fuse.
C39_Witness ==
    /\ ReturnedPayload(1)
    /\ Cardinality(AttemptsAt(1, UserUrl)) = maxAttempts
    /\ Cardinality(AttemptsAt(1, TodosUrl)) = maxAttempts
    /\ ends[Len(ends)].kind = "timeout"
    /\ reqs[1].error.name = "AbortError"
    /\ reqs[1].payload.page.kind = "error"

====
